---- MODULE Spec2Model ----
(***************************************************************************)
(* vk-music-downloader: the metadata resolution engine with its resilience *)
(* layer (src/vk_audio/metadata.py, src/get_metadata) and the HLS          *)
(* transport resolver (src/vk_audio/download.py).                          *)
(*                                                                         *)
(* Time is counted in ticks of 0.1 s, so that min_interval = 1.1 s and the *)
(* backoff waits 1, 2, 4 s are integers.                                   *)
(***************************************************************************)
EXTENDS Integers, Sequences, FiniteSets, TLC

\* ------------------------------------------------------------------ bounds
\* request_json calls of one enricher session that may end with every attempt
\* failed (the network's fault budget); all other outcomes are unlimited
MaxFaults == 3

\* ------------------------------------------------------- program constants
TicksPerSecond == 10
min_interval == 11
max_attempts == 4
backoff_ceiling == 8
failure_threshold == 3
retryable_statuses == {429, 500, 502, 503, 504}

NoneVal == "None"

Min(a, b) == IF a < b THEN a ELSE b

AUTO_SOURCES == <<"itunes", "deezer", "musicbrainz", "lastfm", "discogs">>
ALL_SOURCES == {"itunes", "deezer", "musicbrainz", "lastfm", "discogs"}

\* a bug: the auto order taken from the end of the list
get_source_order_reversed(name) ==
    IF name = "auto"
    THEN [i \in 1..Len(AUTO_SOURCES) |-> AUTO_SOURCES[Len(AUTO_SOURCES) + 1 - i]]
    ELSE <<name>>

get_source_order(name) ==
    IF name = "auto" THEN AUTO_SOURCES ELSE <<name>>

\* the matchers that return None at once when their credential is absent
CredentialSources == {"lastfm", "discogs"}

\* ------------------------------------------------------------------ inputs
\* characters of the artist/title strings of a track descriptor
Blank == " "
TrackValues == {NoneVal, <<>>, <<Blank>>, <<"a">>, <<Blank, "a", Blank>>}
\* status codes an HTTP response can carry
Statuses == {200, 404, 429, 500, 502, 503, 504}
\* what the body of a non-error response is for the matcher
Bodies == {"match", "nomatch", "badjson", "notdict"}
\* how long a request is in flight, and how long the session idles between calls
RequestTicks == {0}
IdleTicks == {11}

RECURSIVE lstrip(_)
lstrip(s) == IF s # <<>> /\ Head(s) = Blank THEN lstrip(Tail(s)) ELSE s
RECURSIVE rstrip(_)
rstrip(s) ==
    IF s # <<>> /\ s[Len(s)] = Blank THEN rstrip(SubSeq(s, 1, Len(s) - 1)) ELSE s
\* str(track.get(key) or "").strip()
stripped(v) == IF v = NoneVal THEN <<>> ELSE rstrip(lstrip(v))

\* what os.environ can hold for LASTFM_API_KEY or DISCOGS_TOKEN: nothing, or a string
CredentialValues == {NoneVal, <<>>, <<Blank>>, <<Blank, Blank>>, <<"k">>, <<Blank, "k">>}

\* a bug: only an absent variable counts as no credential
missing_credential_if_absent(value) == value = NoneVal

\* lastfm, discogs: token = (env.get(...) or "").strip(); if not token: return None
missing_credential(value) == stripped(value) = <<>>

VARIABLES
    source,            \* MetadataEnricher.source: "auto" or the name of one provider
    source_order,      \* MetadataEnricher.source_order
    elapsed,           \* per source: time.monotonic() - _last_request_at_by_source.get(source, 0.0), saturated at min_interval
    failures,          \* _consecutive_network_failures (absent key = 0)
    disabled,          \* _disabled_sources
    pc,                \* "idle" | "source" (lookup's for loop) | "attempt" (request_json's for loop)
    caller,            \* who called the running request_json: "lookup" | "direct"
    track,             \* lookup's locals artist and title
    idx,               \* position of lookup's loop in source_order
    cur,               \* source argument of the running request_json
    attempt,           \* attempt of request_json's loop
    faults,            \* request_json calls that ended with every attempt failed
    since_done,        \* per source: real time since its last request completed, saturated at min_interval
    streak,            \* consecutive request_json calls to Watched that raised with all attempts used
    waits,             \* the backoff waits of the running request_json, in order
    req_idx,           \* position in source_order of the last provider the running lookup requested
    http,              \* the HTTP request of the last step, if that step sent one; the credential
                       \* the matcher read from os.environ, if that step entered lastfm or discogs
    result,            \* how the call ended, if the last step ended a lookup or a direct request_json
    phase,             \* download_hls: "idle" | "manifest" | "segment" (its for loop) | "done" | "failed"
    playlist_url,      \* URL of the manifest parse_hls_segments is about to be given
    segments,          \* the list parse_hls_segments returned
    position,          \* position of download_hls's loop in segments
    key_cache,         \* download_hls's key_cache
    output_file,       \* the destination file: whether it exists, and its bytes
    fetched,           \* the requests of the running download_hls call, in order
    hops,              \* master manifests followed by the running call
    raised,            \* the exception that left download_hls, if one did
    earlier_cached,    \* an earlier download_hls call had keys in its cache
    applied,           \* the function applied by the last step on its own, and its arguments
    returned,          \* what that application returned or raised
    tracks,            \* download_tracks_with_skip_log's argument tracks
    loop,              \* its for loop: state, position, and the arguments if_exists and metadata_enricher
    skipped_file,      \* the lines the running batch appended to _skipped.txt
    calls              \* the download_track calls of the running batch, in order, and how each ended

meta_vars == <<source, source_order, elapsed, failures, disabled, pc, caller, track, idx, cur,
               attempt, faults, since_done, streak, waits, req_idx, http, result>>

hls_vars == <<phase, playlist_url, segments, position, key_cache, output_file, fetched, hops,
              raised, earlier_cached>>

fn_vars == <<applied, returned>>

batch_vars == <<tracks, loop, skipped_file, calls>>

vars == <<meta_vars, hls_vars, fn_vars, batch_vars>>

\* what a step of the enricher, and a step of download_hls, leaves alone
outside_meta == <<hls_vars, fn_vars, batch_vars>>
outside_hls == <<meta_vars, fn_vars, batch_vars>>
outside_fn == <<meta_vars, hls_vars, batch_vars>>
outside_batch == <<meta_vars, hls_vars, fn_vars>>

NoHttp == [sent |-> FALSE]
NoResult == [kind |-> "none yet"]

\* time.sleep / a blocking call: d ticks pass for every source's clock
Advance(f, d) == [s \in ALL_SOURCES |-> Min(min_interval, f[s] + d)]

\* ------------------------------------------------- resilience layer (pure)
\* MetadataEnricher.throttle: the time it sleeps before a request to source
throttle(e, s) ==
    IF e[s] < min_interval THEN min_interval - e[s] ELSE 0

\* self._last_request_at_by_source[source] = time.monotonic(), after a response
stamp_response(e, s) == [e EXCEPT ![s] = 0]

\* a bug: the except branch takes no timestamp
stamp_exception_forgotten(e, s) == e

\* the same assignment in the except branch
stamp_exception(e, s) == [e EXCEPT ![s] = 0]

\* a bug: the exponent is the attempt, not the attempt minus one
wait_ticks_late(k) == TicksPerSecond * Min(backoff_ceiling, 2 ^ k)

\* wait_seconds = min(8, 2 ** (attempt - 1)), in ticks
wait_ticks(k) == TicksPerSecond * Min(backoff_ceiling, 2 ^ (k - 1))

\* a bug: a retryable status is retried on the last attempt as well
retry_on_status_always(status, k) == status \in retryable_statuses

\* response.status_code in retryable_statuses and attempt < max_attempts
retry_on_status(status, k) == status \in retryable_statuses /\ k < max_attempts

\* response.raise_for_status() raises HTTPError, a RequestException
raises_for_status(status) == status >= 400 /\ status < 600

\* the except branch retries while attempt < max_attempts
retry_on_exception(k) == k < max_attempts

\* a bug: a failed call counts for two
count_failure_twice(f, s) == [f EXCEPT ![s] = f[s] + 2]

\* failures = self._consecutive_network_failures.get(source, 0) + 1
count_failure(f, s) == [f EXCEPT ![s] = f[s] + 1]

\* a bug: the comparison is strict, the source is disabled one failure late
disable_past_threshold(d, f, s) ==
    IF f[s] > failure_threshold THEN d \cup {s} ELSE d

\* if failures >= 3: self._disabled_sources.add(source)
disable_on_threshold(d, f, s) ==
    IF f[s] >= failure_threshold THEN d \cup {s} ELSE d

\* a bug: only a track with both fields blank is turned away
blank_track_both(artist, title) == artist = <<>> /\ title = <<>>

\* lookup: if not artist or not title: return None
blank_track(artist, title) == artist = <<>> \/ title = <<>>

\* a bug: lookup asks a disabled source like any other
skipped_never(d, s) == FALSE

\* lookup: if source in self._disabled_sources: continue
skipped(d, s) == s \in d

\* a bug: a match clears the whole circuit breaker
on_match_clearing(f, d, s) == [failures |-> [f EXCEPT ![s] = 0], disabled |-> {}]

\* lookup: if metadata: ... self._consecutive_network_failures[source] = 0;
\* what the branch leaves of the counters and of the disabled set
on_match(f, d, s) == [failures |-> [f EXCEPT ![s] = 0], disabled |-> d]

\* a bug: lookup has no except clause for the matcher call
lookup_catches_nothing(error) == FALSE

\* lookup: except requests.RequestException: ... continue
lookup_catches(error) == error = "RequestException"

\* what is raised between a response and the matcher's result:
\* response.json() raises JSONDecodeError (a RequestException) on a body that
\* is no JSON, data.get raises AttributeError on one that is no object
matcher_raises(body) ==
    CASE body = "badjson" -> "RequestException"
      [] body = "notdict" -> "AttributeError"
      [] OTHER -> NoneVal

\* lookup: if metadata:
accepted(body) == body = "match"

\* ===================================================== HLS transport resolver
\* A URL is [dir |-> path components, name |-> file name]; a reference in a
\* manifest is relative and has the same shape. A manifest text is the list of
\* its non-blank lines, each line a record [t |-> kind, ...] of what the
\* line's prefix and attribute list say.

\* urllib.parse.urljoin(playlist_url, line) for a relative reference
urljoin(base, ref) == [dir |-> base.dir \o ref.dir, name |-> ref.name]

Digits == <<"0", "1", "2", "3", "4", "5", "6", "7", "8", "9">>
HexDigits == Digits \o <<"a", "b", "c", "d", "e", "f">>
IndexIn(seq, c) == CHOOSE i \in 1..Len(seq) : seq[i] = c

\* str.isdigit()
isdigit(v) == v # <<>> /\ \A i \in 1..Len(v) : \E d \in 1..Len(Digits) : Digits[d] = v[i]

\* int(value) for a string of decimal digits
RECURSIVE int(_)
int(v) == IF v = <<>> THEN 0
          ELSE 10 * int(SubSeq(v, 1, Len(v) - 1)) + (IndexIn(Digits, v[Len(v)]) - 1)

NoRef == [dir |-> <<>>, name |-> ""]
NoKey == [METHOD |-> NoneVal, URI |-> NoRef, IV |-> <<>>]

\* the attribute dictionary of a stream-info line: its BANDWIDTH value (empty
\* when absent) and whether it holds any other attribute
NoAttrs == [BANDWIDTH |-> <<>>, others |-> FALSE]
truthy(attrs) == attrs.BANDWIDTH # <<>> \/ attrs.others

\* one line of the scan loop of parse_hls_segments; st holds the loop's locals
parse_line(st, line, base) ==
    CASE line.t = "media_sequence" ->
           IF isdigit(line.value) THEN [st EXCEPT !.media_sequence = int(line.value)] ELSE st
      [] line.t = "stream_inf" ->
           [st EXCEPT !.pending_stream_inf = line.attrs]
      [] truthy(st.pending_stream_inf) /\ line.t = "uri" ->
           [st EXCEPT !.stream_variants =
                          Append(@, [attrs |-> st.pending_stream_inf,
                                     URI |-> urljoin(base, line.ref)]),
                      !.pending_stream_inf = NoAttrs]
      [] line.t = "key" ->
           [st EXCEPT !.current_key =
                          [METHOD |-> line.METHOD,
                           URI |-> IF line.URI.name # "" THEN urljoin(base, line.URI)
                                   ELSE NoRef,
                           IV |-> line.IV]]
      [] line.t # "uri" -> st
      [] OTHER ->
           [st EXCEPT !.segments =
                          Append(@, [url |-> urljoin(base, line.ref),
                                     key |-> st.current_key,
                                     sequence |-> st.media_sequence + Len(st.segments)])]

\* a loop whose segments all share the one key dictionary, so that a key
\* directive shows in the segments recorded before it
RECURSIVE scan_sharing_key(_, _, _)
scan_sharing_key(st, lines, base) ==
    IF lines = <<>> THEN st
    ELSE LET next == parse_line(st, Head(lines), base)
         IN  scan_sharing_key(
                 [next EXCEPT !.segments =
                                  [i \in 1..Len(next.segments) |->
                                      [next.segments[i] EXCEPT !.key = next.current_key]]],
                 Tail(lines), base)

RECURSIVE scan(_, _, _)
scan(st, lines, base) ==
    IF lines = <<>> THEN st
    ELSE scan(parse_line(st, Head(lines), base), Tail(lines), base)

ScanStart ==
    [media_sequence |-> 0, current_key |-> NoKey, segments |-> <<>>,
     stream_variants |-> <<>>, pending_stream_inf |-> NoAttrs]

\* a signature check that lets every non-empty document through
bad_signature_only_if_empty(lines) == lines = <<>>

\* lines[0] != "#EXTM3U", or no line at all
bad_signature(lines) == IF lines = <<>> THEN TRUE ELSE lines[1].t # "extm3u"

\* int(v.get("BANDWIDTH", "0"))
bandwidth(variant) ==
    IF variant.attrs.BANDWIDTH = <<>> THEN 0 ELSE int(variant.attrs.BANDWIDTH)

\* stream_variants.sort(key=bandwidth, reverse=True)[0]: the sort is stable,
\* so the first variant of the highest bandwidth comes first
\* int(...) raises ValueError on a BANDWIDTH value that is no number
sort_raises(variants) ==
    \E i \in 1..Len(variants) :
        variants[i].attrs.BANDWIDTH # <<>> /\ ~isdigit(variants[i].attrs.BANDWIDTH)

\* a sort in which a later variant overtakes an earlier one of equal bandwidth
stays_before_unless_equal(earlier, later) == bandwidth(earlier) > bandwidth(later)

\* the order list.sort(key=..., reverse=True) gives two elements: descending
\* by key, and stable, so an earlier element stays before a later equal one
stays_before(earlier, later) == bandwidth(earlier) >= bandwidth(later)

RECURSIVE insert_variant(_, _)
insert_variant(sorted, v) ==
    IF sorted = <<>> THEN <<v>>
    ELSE IF stays_before(Head(sorted), v)
         THEN <<Head(sorted)>> \o insert_variant(Tail(sorted), v)
         ELSE <<v>> \o sorted

\* stream_variants.sort(key=lambda v: int(v.get("BANDWIDTH", "0")), reverse=True)
RECURSIVE sort_variants(_)
sort_variants(variants) ==
    IF variants = <<>> THEN <<>>
    ELSE insert_variant(sort_variants(SubSeq(variants, 1, Len(variants) - 1)),
                        variants[Len(variants)])

top_variant(variants) == sort_variants(variants)[1]

\* ------------------------------------------------------------- byte strings
\* A byte string is a sequence over 0..255.
BlockSize == 16

RECURSIVE Concat(_)
Concat(chunks) == IF chunks = <<>> THEN <<>> ELSE Head(chunks) \o Concat(Tail(chunks))

\* a bug: only the last byte is looked at
ends_with_padding_byte(data, pad_len) == Len(data) >= pad_len

\* data.endswith(bytes([pad_len]) * pad_len)
ends_with_padding(data, pad_len) ==
    /\ Len(data) >= pad_len
    /\ \A j \in (Len(data) - pad_len + 1)..Len(data) : data[j] = pad_len

maybe_unpad_pkcs7(data) ==
    IF data = <<>> THEN data
    ELSE LET pad_len == data[Len(data)]
         IN  IF 1 <= pad_len /\ pad_len <= 16 /\ ends_with_padding(data, pad_len)
             THEN SubSeq(data, 1, Len(data) - pad_len)
             ELSE data

\* two characters outside ASCII: U+212A KELVIN SIGN, whose lowercase form is
\* the ASCII letter k, and U+042F CYRILLIC CAPITAL LETTER YA
KelvinSign == "U+212A"
CyrillicYa == "U+042F"

\* str.lower() on the characters an IV attribute or a name is written with
lower(c) ==
    CASE c = "X" -> "x" [] c = "A" -> "a" [] c = "B" -> "b" [] c = "C" -> "c"
      [] c = "D" -> "d" [] c = "E" -> "e" [] c = "F" -> "f"
      [] c = KelvinSign -> "k" [] c = CyrillicYa -> "U+044F" [] OTHER -> c

is_hex(c) == \E d \in 1..Len(HexDigits) : HexDigits[d] = lower(c)
hex_value(c) == IndexIn(HexDigits, lower(c)) - 1

\* a bug: the prefix is handed to bytes.fromhex
normalized_iv_with_prefix(iv_hex) == iv_hex

\* iv_hex[2:] if iv_hex.lower().startswith("0x") else iv_hex
normalized_iv(iv_hex) ==
    IF Len(iv_hex) >= 2 /\ lower(iv_hex[1]) = "0" /\ lower(iv_hex[2]) = "x"
    THEN SubSeq(iv_hex, 3, Len(iv_hex))
    ELSE iv_hex

\* bytes.fromhex(h) raises ValueError on an odd length or a non-hex character
fromhex_raises(h) == Len(h) % 2 = 1 \/ \E i \in 1..Len(h) : ~is_hex(h[i])
fromhex(h) == [j \in 1..(Len(h) \div 2) |-> 16 * hex_value(h[2 * j - 1]) + hex_value(h[2 * j])]

\* sequence.to_bytes(16, byteorder="big"); the sequence numbers of the model
\* are below 256^4, so the twelve leading bytes are zero
to_bytes(sequence) ==
    [j \in 1..BlockSize |->
        IF BlockSize - j >= 4 THEN 0 ELSE (sequence \div (256 ^ (BlockSize - j))) % 256]

\* the IV decrypt_hls_segment hands to the cipher
segment_iv(iv_hex, sequence) ==
    IF iv_hex # <<>> THEN fromhex(normalized_iv(iv_hex)) ELSE to_bytes(sequence)

\* AES.new(key, MODE_CBC, iv).decrypt(data). The block cipher is stood in for
\* by a keyed bytewise bijection and XOR by subtraction modulo 256; the CBC
\* chaining of 16-byte blocks, and so the dependence of the plaintext on key,
\* IV and ciphertext, is kept.
cbc_previous(data, iv, j) == IF j <= BlockSize THEN iv[j] ELSE data[j - BlockSize]
cbc_decrypt(key_bytes, iv, data) ==
    [j \in 1..Len(data) |->
        (data[j] - key_bytes[((j - 1) % Len(key_bytes)) + 1]
                 - cbc_previous(data, iv, j) + 512) % 256]

\* ValueError of bytes.fromhex, of AES.new (key or IV length) or of decrypt
\* (data not a whole number of blocks)
decrypt_raises(data, key_bytes, iv_hex, sequence) ==
    IF iv_hex # <<>> /\ fromhex_raises(normalized_iv(iv_hex)) THEN TRUE
    ELSE IF Len(key_bytes) \notin {16, 24, 32} THEN TRUE
    ELSE IF Len(segment_iv(iv_hex, sequence)) # BlockSize THEN TRUE
    ELSE Len(data) % BlockSize # 0

decrypt_hls_segment(data, key_bytes, iv_hex, sequence) ==
    maybe_unpad_pkcs7(cbc_decrypt(key_bytes, segment_iv(iv_hex, sequence), data))

\* ------------------------------------------------------- transport inputs
\* lines of a manifest after its first line
MaxLines == 3
\* master manifests a download follows before it reaches a media manifest
MaxHops == 1

RootUrl == [dir |-> <<"vk">>, name |-> "index.m3u8"]
Ref(name) == [dir |-> <<>>, name |-> name]
ExplicitIv == <<"0", "X">> \o [j \in 1..32 |-> IF j = 32 THEN "A" ELSE "0"]

KeyLine(method, uri, iv) == [t |-> "key", METHOD |-> method, URI |-> uri, IV |-> iv]
InfLine(bw, others) == [t |-> "stream_inf", attrs |-> [BANDWIDTH |-> bw, others |-> others]]

ManifestLines ==
    {[t |-> "ext"],
     [t |-> "uri", ref |-> Ref("s1")],
     [t |-> "uri", ref |-> [dir |-> <<"hi">>, name |-> "s2"]],
     [t |-> "media_sequence", value |-> <<"7">>],
     [t |-> "media_sequence", value |-> <<"x">>],
     InfLine(<<"2">>, FALSE), InfLine(<<"1">>, TRUE), InfLine(<<>>, FALSE),
     KeyLine("AES-128", Ref("k1"), <<>>), KeyLine("AES-128", Ref("k2"), <<>>),
     KeyLine("AES-128", Ref("k1"), ExplicitIv),
     KeyLine("AES-128", NoRef, <<>>), KeyLine("NONE", NoRef, <<>>)}

\* the texts a server may answer a manifest request with: a first line and up
\* to MaxLines further lines, or nothing at all
FirstLines == {[t |-> "extm3u"], [t |-> "ext"]}
Manifests ==
    {<<>>} \cup {<<first>> : first \in FirstLines} \cup
    UNION {{<<first>> \o rest : first \in FirstLines, rest \in [1..n -> ManifestLines]} :
              n \in 1..MaxLines}

SegmentBodies == {[j \in 1..BlockSize |-> IF j = BlockSize THEN 2 ELSE 9], <<7>>}
KeyBodies == {[j \in 1..BlockSize |-> 1], [j \in 1..BlockSize |-> 2]}

\* ------------------------------------------------------------- download_hls
NoFile == [exists |-> FALSE, content |-> <<>>]
Fetch(kind, url, ok, body) == [kind |-> kind, url |-> url, ok |-> ok, body |-> body]

\* no download_hls call has been made
download_idle ==
    /\ phase = "idle"
    /\ playlist_url = RootUrl
    /\ segments = <<>>
    /\ position = 0
    /\ key_cache = <<>>
    /\ output_file = NoFile
    /\ fetched = <<>>
    /\ hops = 0
    /\ raised = NoneVal
    /\ earlier_cached = FALSE
    /\ applied = [fn |-> NoneVal]
    /\ returned = [raised |-> NoneVal]
    /\ tracks = <<>>
    /\ loop = [state |-> "idle"]
    /\ skipped_file = <<>>
    /\ calls = <<>>

\* ---------------------------------------------------------------- session
\* MetadataEnricher.__init__: nothing requested, nothing failed, nothing
\* disabled; the monotonic clock is past min_interval when the session starts
InitMeta ==
    /\ source \in {"auto"} \cup ALL_SOURCES
    /\ source_order = get_source_order(source)
    /\ elapsed = [s \in ALL_SOURCES |-> min_interval]
    /\ failures = [s \in ALL_SOURCES |-> 0]
    /\ disabled = {}
    /\ pc = "idle"
    /\ caller = NoneVal
    /\ track = NoneVal
    /\ idx = 0
    /\ cur = NoneVal
    /\ attempt = 0
    /\ faults = 0
    /\ since_done = [s \in ALL_SOURCES |-> min_interval]
    /\ streak = 0
    /\ waits = <<>>
    /\ req_idx = 0
    /\ http = NoHttp
    /\ result = NoResult
    /\ download_idle

\* the source whose consecutive failed calls streak counts: the first provider
Watched == source_order[1]

\* the frame of a step inside request_json or lookup's loop
health == <<elapsed, failures, disabled, since_done>>
budget == <<faults, streak>>

\* time passes between two calls (the next track is being downloaded)
idle_wait ==
    /\ pc = "idle"
    /\ \E d \in IdleTicks :
        /\ elapsed' = Advance(elapsed, d)
        /\ since_done' = Advance(since_done, d)
    /\ http' = NoHttp
    /\ result' = NoResult
    /\ UNCHANGED <<source, source_order, failures, disabled, pc, caller, track, idx, cur, attempt,
                   budget, waits, req_idx>>
    /\ UNCHANGED outside_meta

\* lookup(track) with artist or title blank after trimming: returns None
lookup_blank ==
    /\ pc = "idle"
    /\ \E a \in TrackValues, t \in TrackValues :
        /\ blank_track(stripped(a), stripped(t))
        /\ result' = [by |-> "lookup", kind |-> "none",
                      artist |-> stripped(a), title |-> stripped(t),
                      visited |-> 0, last_req |-> 0]
    /\ http' = NoHttp
    /\ UNCHANGED <<source, source_order, health, pc, caller, track, idx, cur, attempt, budget,
                   waits, req_idx>>
    /\ UNCHANGED outside_meta

\* lookup(track) otherwise: enters the loop over source_order
lookup_begin ==
    /\ pc = "idle"
    /\ \E a \in TrackValues, t \in TrackValues :
        /\ ~blank_track(stripped(a), stripped(t))
        /\ track' = [artist |-> stripped(a), title |-> stripped(t)]
    /\ pc' = "source"
    /\ idx' = 1
    /\ http' = NoHttp
    /\ result' = NoResult
    /\ UNCHANGED <<source, source_order, health, caller, cur, attempt, budget, waits, req_idx>>
    /\ UNCHANGED outside_meta

\* lookup returns: its locals are gone, the result is with the caller
lookup_returns(kind, from, requested) ==
    /\ pc' = "idle"
    /\ caller' = NoneVal
    /\ track' = NoneVal
    /\ idx' = 0
    /\ cur' = NoneVal
    /\ attempt' = 0
    /\ waits' = <<>>
    /\ req_idx' = 0
    /\ result' = [by |-> "lookup", kind |-> kind, source |-> from,
                  artist |-> track.artist, title |-> track.title,
                  visited |-> idx, last_req |-> requested]

\* lookup's loop goes on to the next source after a matcher call
lookup_continues ==
    /\ pc' = "source"
    /\ caller' = NoneVal
    /\ idx' = idx + 1
    /\ cur' = NoneVal
    /\ attempt' = 0
    /\ waits' = <<>>
    /\ req_idx' = idx
    /\ result' = NoResult
    /\ UNCHANGED track

\* a request_json called from outside lookup ends
direct_ends(kind) ==
    /\ pc' = "idle"
    /\ caller' = NoneVal
    /\ cur' = NoneVal
    /\ attempt' = 0
    /\ waits' = <<>>
    /\ result' = [by |-> "direct", kind |-> kind, source |-> cur,
                  attempts |-> attempt, waits |-> waits]
    /\ UNCHANGED <<track, idx, req_idx>>

\* the loop is over: return None
lookup_return_none ==
    /\ pc = "source"
    /\ idx > Len(source_order)
    /\ lookup_returns("none", NoneVal, req_idx)
    /\ http' = NoHttp
    /\ UNCHANGED <<source, source_order, health, budget>>
    /\ UNCHANGED outside_meta

\* if source in self._disabled_sources: continue
lookup_skip_disabled ==
    /\ pc = "source"
    /\ idx <= Len(source_order)
    /\ skipped(disabled, source_order[idx])
    /\ idx' = idx + 1
    /\ http' = NoHttp
    /\ result' = NoResult
    /\ UNCHANGED <<source, source_order, health, pc, caller, track, cur, attempt, budget, waits,
                   req_idx>>
    /\ UNCHANGED outside_meta

\* lastfm / discogs without their credential in os.environ: the matcher
\* returns None before request_json is called
lookup_no_credential ==
    /\ pc = "source"
    /\ idx <= Len(source_order)
    /\ ~skipped(disabled, source_order[idx])
    /\ source_order[idx] \in CredentialSources
    /\ \E value \in CredentialValues :
          /\ missing_credential(value)
          /\ http' = [sent |-> FALSE, env |-> value]
    /\ idx' = idx + 1
    /\ result' = NoResult
    /\ UNCHANGED <<source, source_order, health, pc, caller, track, cur, attempt, budget, waits,
                   req_idx>>
    /\ UNCHANGED outside_meta

\* the matcher calls request_json(source, ...)
lookup_call_matcher ==
    /\ pc = "source"
    /\ idx <= Len(source_order)
    /\ ~skipped(disabled, source_order[idx])
    /\ IF source_order[idx] \in CredentialSources
       THEN \E value \in CredentialValues :
               /\ ~missing_credential(value)
               /\ http' = [sent |-> FALSE, env |-> value]
       ELSE http' = NoHttp
    /\ pc' = "attempt"
    /\ caller' = "lookup"
    /\ cur' = source_order[idx]
    /\ attempt' = 1
    /\ result' = NoResult
    /\ UNCHANGED <<source, source_order, health, track, idx, budget, waits, req_idx>>
    /\ UNCHANGED outside_meta

\* request_json(source, ...) called from outside lookup, for the first
\* provider of the order (the one whose failed calls streak counts)
request_json_direct ==
    /\ pc = "idle"
    /\ cur' = source_order[1]
    /\ pc' = "attempt"
    /\ caller' = "direct"
    /\ attempt' = 1
    /\ http' = NoHttp
    /\ result' = NoResult
    /\ UNCHANGED <<source, source_order, health, track, idx, budget, waits, req_idx>>
    /\ UNCHANGED outside_meta

\* ------------------------------------------------- request_json, one attempt
\* self.throttle(source) of the running attempt
Slept == throttle(elapsed, cur)

\* a per-source clock after the throttle's sleep and a request of dur ticks
Flight(f, dur) == Advance(Advance(f, Slept), dur)

\* what session.get gave: no response, or a response by the class of its status
Got(exc, status) ==
    IF exc THEN "exception"
    ELSE IF status \in retryable_statuses THEN "retryable"
    ELSE IF raises_for_status(status) THEN "error"
    ELSE "ok"

\* what an observer of the wire sees of the attempt; got is what session.get
\* gave, and only_retryable says that this and every earlier attempt of the
\* call got a response with a retryable status
Sent(outcome, ends, got) ==
    [sent |-> TRUE, source |-> cur, by |-> caller, k |-> attempt, outcome |-> outcome,
     ends |-> ends, waited |-> waits, got |-> got,
     only_retryable |-> IF got # "retryable" THEN FALSE
                        ELSE IF attempt = 1 THEN TRUE
                        ELSE http.only_retryable,
     slept |-> Slept,
     gap_before |-> since_done[cur],
     gap_at_send |-> Advance(since_done, Slept)[cur],
     others_recent |-> \E s \in ALL_SOURCES \ {cur} : since_done[s] < min_interval,
     at |-> idx, prev_at |-> req_idx]

Completed(dur) == [Flight(since_done, dur) EXCEPT ![cur] = 0]

\* a response with a retryable status while attempts remain: back off, continue
attempt_retry_status ==
    /\ pc = "attempt"
    /\ \E status \in Statuses, dur \in RequestTicks :
        /\ retry_on_status(status, attempt)
        /\ elapsed' = Advance(stamp_response(Flight(elapsed, dur), cur), wait_ticks(attempt))
        /\ since_done' = Advance(Completed(dur), wait_ticks(attempt))
    /\ http' = Sent("retryable status", FALSE, "retryable")
    /\ waits' = Append(waits, wait_ticks(attempt))
    /\ attempt' = attempt + 1
    /\ req_idx' = IF caller = "lookup" THEN idx ELSE req_idx
    /\ result' = NoResult
    /\ UNCHANGED <<source, source_order, failures, disabled, pc, caller, track, idx, cur, budget>>
    /\ UNCHANGED outside_meta

\* a response that passes raise_for_status: break, return response.json();
\* inside lookup the matcher and the rest of lookup's loop body follow at once
attempt_success ==
    /\ pc = "attempt"
    /\ \E status \in Statuses, dur \in RequestTicks, body \in Bodies :
        /\ ~retry_on_status(status, attempt)
        /\ ~raises_for_status(status)
        /\ elapsed' = stamp_response(Flight(elapsed, dur), cur)
        /\ since_done' = Completed(dur)
        /\ http' = Sent(body, TRUE, Got(FALSE, status))
        /\ IF caller = "direct"
           THEN /\ direct_ends(IF matcher_raises(body) = "RequestException"
                               THEN "raised RequestException" ELSE "returned")
                /\ UNCHANGED <<failures, disabled>>
           ELSE IF matcher_raises(body) # NoneVal
           THEN /\ IF lookup_catches(matcher_raises(body))
                   THEN lookup_continues
                   ELSE lookup_returns("raised " \o matcher_raises(body), NoneVal, idx)
                /\ UNCHANGED <<failures, disabled>>
           ELSE IF accepted(body)
           THEN \* the mapping is non-empty: reset the counter, return it
                /\ failures' = on_match(failures, disabled, cur).failures
                /\ disabled' = on_match(failures, disabled, cur).disabled
                /\ lookup_returns("metadata", cur, idx)
           ELSE \* the matcher returned None: next source
                /\ lookup_continues
                /\ UNCHANGED <<failures, disabled>>
    /\ streak' = IF cur = Watched THEN 0 ELSE streak
    /\ UNCHANGED <<source, source_order, faults>>
    /\ UNCHANGED outside_meta

\* the request raised, or raise_for_status did: a RequestException
Failed(exc, status) ==
    exc \/ (~retry_on_status(status, attempt) /\ raises_for_status(status))

\* elapsed after the except branch took its timestamp
Excepted(exc, dur) ==
    stamp_exception(IF exc THEN Flight(elapsed, dur)
                    ELSE stamp_response(Flight(elapsed, dur), cur), cur)

\* except branch while attempts remain: back off, continue
attempt_retry_error ==
    /\ pc = "attempt"
    /\ \E exc \in BOOLEAN, status \in Statuses, dur \in RequestTicks :
        /\ Failed(exc, status)
        /\ retry_on_exception(attempt)
        /\ elapsed' = Advance(Excepted(exc, dur), wait_ticks(attempt))
        /\ since_done' = Advance(Completed(dur), wait_ticks(attempt))
        /\ http' = Sent(IF exc THEN "exception" ELSE "error status", FALSE, Got(exc, status))
    /\ waits' = Append(waits, wait_ticks(attempt))
    /\ attempt' = attempt + 1
    /\ req_idx' = IF caller = "lookup" THEN idx ELSE req_idx
    /\ result' = NoResult
    /\ UNCHANGED <<source, source_order, failures, disabled, pc, caller, track, idx, cur, budget>>
    /\ UNCHANGED outside_meta

\* except branch on the last attempt: count the failure, disable at the
\* threshold, re-raise; lookup catches it and goes on to the next source
attempt_fail ==
    /\ pc = "attempt"
    /\ faults < MaxFaults
    /\ \E exc \in BOOLEAN, status \in Statuses, dur \in RequestTicks :
        /\ Failed(exc, status)
        /\ ~retry_on_exception(attempt)
        /\ elapsed' = Excepted(exc, dur)
        /\ since_done' = Completed(dur)
        /\ http' = Sent(IF exc THEN "exception" ELSE "error status", TRUE, Got(exc, status))
    /\ failures' = count_failure(failures, cur)
    /\ disabled' = disable_on_threshold(disabled, failures', cur)
    /\ faults' = faults + 1
    /\ streak' = IF cur = Watched THEN Min(failure_threshold, streak + 1) ELSE streak
    /\ IF caller = "direct" THEN direct_ends("raised RequestException")
       ELSE IF lookup_catches("RequestException") THEN lookup_continues
       ELSE lookup_returns("raised RequestException", NoneVal, idx)
    /\ UNCHANGED <<source, source_order>>
    /\ UNCHANGED outside_meta

NextMeta ==
    \/ idle_wait
    \/ lookup_blank
    \/ lookup_begin
    \/ lookup_return_none
    \/ lookup_skip_disabled
    \/ lookup_no_credential
    \/ lookup_call_matcher
    \/ request_json_direct
    \/ attempt_retry_status
    \/ attempt_success
    \/ attempt_retry_error
    \/ attempt_fail

SpecMeta == InitMeta /\ [][NextMeta]_vars

\* the enricher as the program drives it: through lookup alone, whose
\* matchers make every request_json call
NextLookup ==
    \/ idle_wait
    \/ lookup_blank
    \/ lookup_begin
    \/ lookup_return_none
    \/ lookup_skip_disabled
    \/ lookup_no_credential
    \/ lookup_call_matcher
    \/ attempt_retry_status
    \/ attempt_success
    \/ attempt_retry_error
    \/ attempt_fail

SpecLookup == InitMeta /\ [][NextLookup]_vars

\* parse_hls_segments' scan of one manifest text
parsed(text) == scan(ScanStart, text, playlist_url)

\* the segment of the running loop iteration
segment == segments[position]
in_loop == phase = "segment" /\ position <= Len(segments)

\* a bug: every method but NONE is taken for the cipher
encrypted_unless_none(seg) == seg.key.METHOD \notin {NoneVal, "NONE"}

\* isinstance(key_data, dict) and key_data.get("METHOD") == "AES-128"
encrypted(seg) == seg.key.METHOD = "AES-128"

\* a key URI that is never found missing
missing_key_uri_never(key_uri) == FALSE

\* if not key_uri
missing_key_uri(key_uri) == key_uri.name = ""

\* a cache that is never consulted
needs_key_fetch_always(cache, key_uri) == TRUE

\* key_uri not in key_cache
needs_key_fetch(cache, key_uri) == key_uri \notin DOMAIN cache

\* key_cache[str(key_uri)] = key_response.content
cache_put(cache, key_uri, body) ==
    [u \in DOMAIN cache \cup {key_uri} |-> IF u = key_uri THEN body ELSE cache[u]]

\* decryption with the position in the loop in place of the sequence number
segment_plaintext_by_position(seg, data, cache) ==
    decrypt_hls_segment(data, cache[seg.key.URI], seg.key.IV, position - 1)

\* the decrypt_hls_segment call of the loop body
segment_plaintext(seg, data, cache) ==
    decrypt_hls_segment(data, cache[seg.key.URI], seg.key.IV, seg.sequence)

\* output_file.write(segment_data)
written(file, data) == [file EXCEPT !.content = @ \o data]

\* download_hls(url, destination) is called; destination is a fresh path
download_hls_begin ==
    /\ phase \in {"idle", "done", "failed"}
    /\ phase' = "manifest"
    /\ playlist_url' = RootUrl
    /\ segments' = <<>>
    /\ position' = 0
    /\ output_file' = NoFile
    /\ fetched' = <<>>
    /\ hops' = 0
    /\ raised' = NoneVal
    /\ UNCHANGED <<key_cache, earlier_cached>>
    /\ UNCHANGED outside_hls

\* the failed step is tried again instead of raising
retries(error, log, cache) ==
    /\ raised' = error
    /\ fetched' = log
    /\ key_cache' = cache
    /\ UNCHANGED <<phase, playlist_url, segments, position, hops, earlier_cached>>
    /\ UNCHANGED outside_hls

\* an exception leaves download_hls, whose cache held `cache`
fails(error, log, cache) ==
    /\ phase' = "failed"
    /\ raised' = error
    /\ fetched' = log
    /\ key_cache' = <<>>
    /\ earlier_cached' = (earlier_cached \/ cache # <<>>)
    /\ UNCHANGED <<playlist_url, segments, position, hops>>
    /\ UNCHANGED outside_hls

\* requests.get of the manifest raises, or raise_for_status does
manifest_fetch_fails ==
    /\ phase = "manifest"
    /\ fails("RequestException", Append(fetched, Fetch("manifest", playlist_url, FALSE, <<>>)), key_cache)
    /\ UNCHANGED output_file

\* the text does not start with the signature
manifest_bad_signature ==
    /\ phase = "manifest"
    /\ \E text \in Manifests :
          /\ bad_signature(text)
          /\ fails("HlsParseError", Append(fetched, Fetch("manifest", playlist_url, TRUE, <<>>)), key_cache)
    /\ UNCHANGED output_file

\* the scan found neither a variant nor a segment
manifest_no_segments ==
    /\ phase = "manifest"
    /\ \E text \in Manifests :
          /\ ~bad_signature(text)
          /\ parsed(text).stream_variants = <<>>
          /\ parsed(text).segments = <<>>
          /\ fails("HlsParseError", Append(fetched, Fetch("manifest", playlist_url, TRUE, <<>>)), key_cache)
    /\ UNCHANGED output_file

\* a master manifest: the scan found variants, the first of the sorted list is
\* fetched and parsed in its place
manifest_master ==
    /\ phase = "manifest"
    /\ hops < MaxHops
    /\ \E text \in Manifests :
          /\ ~bad_signature(text)
          /\ parsed(text).stream_variants # <<>>
          /\ playlist_url' = top_variant(parsed(text).stream_variants).URI
    /\ hops' = hops + 1
    /\ fetched' = Append(fetched, Fetch("manifest", playlist_url, TRUE, <<>>))
    /\ UNCHANGED <<phase, segments, position, key_cache, output_file, raised, earlier_cached>>
    /\ UNCHANGED outside_hls

\* a media manifest: parse_hls_segments returns its segments, the key cache
\* is created and the destination opened for writing
manifest_media ==
    /\ phase = "manifest"
    /\ \E text \in Manifests :
          /\ ~bad_signature(text)
          /\ parsed(text).stream_variants = <<>>
          /\ parsed(text).segments # <<>>
          /\ segments' = parsed(text).segments
    /\ phase' = "segment"
    /\ position' = 1
    /\ key_cache' = <<>>
    /\ output_file' = [exists |-> TRUE, content |-> <<>>]
    /\ fetched' = Append(fetched, Fetch("manifest", playlist_url, TRUE, <<>>))
    /\ UNCHANGED <<playlist_url, hops, raised, earlier_cached>>
    /\ UNCHANGED outside_hls

\* the segment request raises, or raise_for_status does
segment_fetch_fails ==
    /\ in_loop
    /\ fails("RequestException", Append(fetched, Fetch("segment", segment.url, FALSE, <<>>)), key_cache)
    /\ UNCHANGED output_file

\* a segment that is not AES-128 is written as fetched
segment_plain ==
    /\ in_loop
    /\ ~encrypted(segment)
    /\ \E data \in SegmentBodies :
          /\ fetched' = Append(fetched, Fetch("segment", segment.url, TRUE, data))
          /\ output_file' = written(output_file, data)
    /\ position' = position + 1
    /\ UNCHANGED <<phase, playlist_url, segments, key_cache, hops, raised, earlier_cached>>
    /\ UNCHANGED outside_hls

\* an AES-128 segment whose key descriptor has no URI
segment_key_missing ==
    /\ in_loop
    /\ encrypted(segment)
    /\ missing_key_uri(segment.key.URI)
    /\ \E data \in SegmentBodies :
          fails("HlsParseError", Append(fetched, Fetch("segment", segment.url, TRUE, data)),
                key_cache)
    /\ UNCHANGED output_file

\* the key request raises, or raise_for_status does
key_fetch_fails ==
    /\ in_loop
    /\ encrypted(segment)
    /\ ~missing_key_uri(segment.key.URI)
    /\ needs_key_fetch(key_cache, segment.key.URI)
    /\ \E data \in SegmentBodies :
          fails("RequestException",
                fetched \o <<Fetch("segment", segment.url, TRUE, data),
                             Fetch("key", segment.key.URI, FALSE, <<>>)>>,
                key_cache)
    /\ UNCHANGED output_file

\* the requests of one iteration over an AES-128 segment, and the cache after
iteration_log(data, key_body) ==
    fetched \o <<Fetch("segment", segment.url, TRUE, data)>>
            \o IF needs_key_fetch(key_cache, segment.key.URI)
               THEN <<Fetch("key", segment.key.URI, TRUE, key_body)>> ELSE <<>>
iteration_cache(key_body) ==
    IF needs_key_fetch(key_cache, segment.key.URI)
    THEN cache_put(key_cache, segment.key.URI, key_body) ELSE key_cache
key_answers ==
    IF needs_key_fetch(key_cache, segment.key.URI) THEN KeyBodies
    ELSE {key_cache[segment.key.URI]}

\* the cipher rejects the key, the IV or the length of the data
segment_decrypt_fails ==
    /\ in_loop
    /\ encrypted(segment)
    /\ ~missing_key_uri(segment.key.URI)
    /\ \E data \in SegmentBodies, key_body \in key_answers :
          /\ decrypt_raises(data, iteration_cache(key_body)[segment.key.URI],
                            segment.key.IV, segment.sequence)
          /\ fails("ValueError", iteration_log(data, key_body), iteration_cache(key_body))
    /\ UNCHANGED output_file

\* an AES-128 segment is decrypted with its key and written
segment_decrypted ==
    /\ in_loop
    /\ encrypted(segment)
    /\ ~missing_key_uri(segment.key.URI)
    /\ \E data \in SegmentBodies, key_body \in key_answers :
          /\ ~decrypt_raises(data, iteration_cache(key_body)[segment.key.URI],
                             segment.key.IV, segment.sequence)
          /\ key_cache' = iteration_cache(key_body)
          /\ fetched' = iteration_log(data, key_body)
          /\ output_file' =
                 written(output_file, segment_plaintext(segment, data, iteration_cache(key_body)))
    /\ position' = position + 1
    /\ UNCHANGED <<phase, playlist_url, segments, hops, raised, earlier_cached>>
    /\ UNCHANGED outside_hls

\* the loop is over, the file is closed and the cache goes out of scope
download_hls_returns ==
    /\ phase = "segment"
    /\ position > Len(segments)
    /\ phase' = "done"
    /\ key_cache' = <<>>
    /\ earlier_cached' = (earlier_cached \/ key_cache # <<>>)
    /\ UNCHANGED <<playlist_url, segments, position, output_file, fetched, hops, raised>>
    /\ UNCHANGED outside_hls

InitHls == InitMeta /\ source = "auto"

NextHls ==
    \/ download_hls_begin
    \/ manifest_fetch_fails
    \/ manifest_bad_signature
    \/ manifest_no_segments
    \/ manifest_master
    \/ manifest_media
    \/ segment_fetch_fails
    \/ segment_plain
    \/ segment_key_missing
    \/ key_fetch_fails
    \/ segment_decrypt_fails
    \/ segment_decrypted
    \/ download_hls_returns

SpecHls == InitHls /\ [][NextHls]_vars

\* ------------------------------------------------ downloads with key changes
\* download_hls on media manifests of up to MaxSwitchLines lines in which key
\* directives of several methods stand between the segment lines
MaxSwitchLines == 4

SwitchLines ==
    {[t |-> "uri", ref |-> Ref("s1")],
     [t |-> "uri", ref |-> Ref("s2")],
     KeyLine("AES-128", Ref("k1"), <<>>), KeyLine("AES-128", NoRef, <<>>),
     KeyLine("NONE", NoRef, <<>>), KeyLine("SAMPLE-AES", Ref("k2"), <<>>)}

SwitchTexts ==
    UNION {{<<[t |-> "extm3u"]>> \o rest : rest \in [1..n -> SwitchLines]} : n \in 1..MaxSwitchLines}

\* lines 129-134 with such a manifest: parse_hls_segments returns its
\* segments, the key cache is created and the destination opened
manifest_with_key_changes ==
    /\ phase = "manifest"
    /\ \E text \in SwitchTexts :
          /\ parsed(text).segments # <<>>
          /\ segments' = parsed(text).segments
    /\ phase' = "segment"
    /\ position' = 1
    /\ key_cache' = <<>>
    /\ output_file' = [exists |-> TRUE, content |-> <<>>]
    /\ fetched' = Append(fetched, Fetch("manifest", playlist_url, TRUE, <<>>))
    /\ UNCHANGED <<playlist_url, hops, raised, earlier_cached>>
    /\ UNCHANGED outside_hls

NextSwitch ==
    \/ download_hls_begin
    \/ manifest_with_key_changes
    \/ segment_fetch_fails
    \/ segment_plain
    \/ segment_key_missing
    \/ key_fetch_fails
    \/ segment_decrypt_fails
    \/ segment_decrypted
    \/ download_hls_returns

SpecSwitch == InitHls /\ [][NextSwitch]_vars

\* ------------------------------------------------ download_track, HLS branch
\* download_track for a track with an HLS URL from "Track download started"
\* on (lines 261-272): download_hls writes to temp_ts_path, which is
\* output_file here; loop holds where download_track stands
ConverterOutcomes == {"converted", "MissingDependencyError", "RuntimeError"}

\* a finally clause that leaves the temporary file where it is
unlink_temp_forgotten(file) == file

\* finally: if temp_ts_path.exists(): temp_ts_path.unlink()
unlink_temp(file) == IF file.exists THEN NoFile ELSE file

\* download_track reaches the try and calls download_hls(url, temp_ts_path)
track_calls_download_hls ==
    /\ loop.state \in {"idle", "left"}
    /\ loop' = [state |-> "download_hls"]
    /\ phase' = "manifest"
    /\ playlist_url' = RootUrl
    /\ segments' = <<>>
    /\ position' = 0
    /\ output_file' = NoFile
    /\ fetched' = <<>>
    /\ hops' = 0
    /\ raised' = NoneVal
    /\ UNCHANGED <<key_cache, earlier_cached>>
    /\ UNCHANGED <<meta_vars, fn_vars, tracks, skipped_file, calls>>

\* download_hls raised: the finally clause runs and the exception leaves
\* download_track
track_hls_raised ==
    /\ loop.state = "download_hls"
    /\ phase = "failed"
    /\ output_file' = unlink_temp(output_file)
    /\ loop' = [state |-> "left", end |-> raised, converter |-> "not called",
                temp_written |-> output_file.exists]
    /\ UNCHANGED <<phase, playlist_url, segments, position, key_cache, fetched, hops, raised,
                   earlier_cached>>
    /\ UNCHANGED <<meta_vars, fn_vars, tracks, skipped_file, calls>>

\* download_hls returned: convert_to_mp3 finds no ffmpeg, fails or converts,
\* then the finally clause runs
track_converts ==
    /\ loop.state = "download_hls"
    /\ phase = "done"
    /\ \E outcome \in ConverterOutcomes :
          loop' = [state |-> "left",
                   end |-> IF outcome = "converted" THEN "path" ELSE outcome,
                   converter |-> IF outcome = "MissingDependencyError" THEN "not found"
                                 ELSE "run",
                   temp_written |-> output_file.exists]
    /\ output_file' = unlink_temp(output_file)
    /\ UNCHANGED <<phase, playlist_url, segments, position, key_cache, fetched, hops, raised,
                   earlier_cached>>
    /\ UNCHANGED <<meta_vars, fn_vars, tracks, skipped_file, calls>>

NextTrack ==
    \/ track_calls_download_hls
    \/ manifest_fetch_fails
    \/ manifest_bad_signature
    \/ manifest_no_segments
    \/ manifest_master
    \/ manifest_media
    \/ segment_fetch_fails
    \/ segment_plain
    \/ segment_key_missing
    \/ key_fetch_fails
    \/ segment_decrypt_fails
    \/ segment_decrypted
    \/ download_hls_returns
    \/ track_hls_raised
    \/ track_converts

SpecTrack == InitHls /\ [][NextTrack]_vars

\* ------------------------------------------------- master manifests alone
\* parse_hls_segments applied to a master manifest of up to MaxVariants
\* variants, each a stream-info line (BANDWIDTH and another attribute, or the
\* other attribute only) followed by its URI line.
MaxVariants == 4

BandwidthValues == {<<>>, <<"3", "0", "0">>, <<"5", "0", "0">>, <<"1", "2", "0", "0">>, <<"h", "i">>}
BandwidthLists == UNION {[1..n -> BandwidthValues] : n \in 1..MaxVariants}
VariantNames == <<"v1", "v2", "v3", "v4", "v5">>

RECURSIVE master_text(_, _)
master_text(bandwidths, n) ==
    IF n = 0 THEN <<[t |-> "extm3u"]>>
    ELSE master_text(bandwidths, n - 1)
         \o <<InfLine(bandwidths[n], TRUE), [t |-> "uri", ref |-> Ref(VariantNames[n])]>>

\* lines 96-98 of parse_hls_segments on a scanned master manifest
select_variant(st) ==
    IF sort_raises(st.stream_variants)
    THEN [raised |-> "ValueError", variants |-> Len(st.stream_variants), URI |-> NoRef]
    ELSE [raised |-> NoneVal, variants |-> Len(st.stream_variants),
          URI |-> top_variant(st.stream_variants).URI]

parse_master ==
    /\ applied.fn = NoneVal
    /\ \E bandwidths \in BandwidthLists :
          /\ applied' = [fn |-> "parse_hls_segments", bandwidths |-> bandwidths]
          /\ returned' = select_variant(scan(ScanStart,
                                             master_text(bandwidths, Len(bandwidths)), RootUrl))
    /\ UNCHANGED outside_fn

NextMaster == parse_master

SpecMaster == InitHls /\ [][NextMaster]_vars

\* ---------------------------------------------------- one manifest alone
Outcome(error, follows, segs) == [raised |-> error, follows |-> follows, segments |-> segs]

\* a parser that looks at its segments before its variants, and so returns a
\* master manifest's own segment lines
parse_hls_segments_segments_first(text, url) ==
    IF bad_signature(text) THEN Outcome("HlsParseError", NoRef, <<>>)
    ELSE LET st == scan(ScanStart, text, url)
         IN  IF st.segments # <<>> THEN Outcome(NoneVal, NoRef, st.segments)
             ELSE IF st.stream_variants = <<>> THEN Outcome("HlsParseError", NoRef, <<>>)
             ELSE IF sort_raises(st.stream_variants) THEN Outcome("ValueError", NoRef, <<>>)
             ELSE Outcome(NoneVal, top_variant(st.stream_variants).URI, <<>>)

\* one call of parse_hls_segments up to its return, its raise or its
\* recursive call for the variant it follows
parse_hls_segments(text, url) ==
    IF bad_signature(text) THEN Outcome("HlsParseError", NoRef, <<>>)
    ELSE LET st == scan(ScanStart, text, url)
         IN  IF st.stream_variants # <<>>
             THEN IF sort_raises(st.stream_variants) THEN Outcome("ValueError", NoRef, <<>>)
                  ELSE Outcome(NoneVal, top_variant(st.stream_variants).URI, <<>>)
             ELSE IF st.segments = <<>> THEN Outcome("HlsParseError", NoRef, <<>>)
             ELSE Outcome(NoneVal, NoRef, st.segments)

parse_document ==
    /\ applied.fn = NoneVal
    /\ \E text \in Manifests :
          /\ applied' = [fn |-> "parse_hls_segments", text |-> text]
          /\ returned' = parse_hls_segments(text, RootUrl)
    /\ UNCHANGED outside_fn

NextParse == parse_document

SpecParse == InitHls /\ [][NextParse]_vars

\* ----------------------------------------------------- the scan loop alone
\* parse_hls_segments applied to a manifest with the signature line and up to
\* MaxScanLines further lines; the loop's locals after the last line are kept
\* next to the call's outcome (lines 59-94 and 96-107)
MaxScanLines == 4

ScanLines ==
    {[t |-> "ext"],
     [t |-> "uri", ref |-> Ref("s1")],
     [t |-> "uri", ref |-> Ref("s2")],
     [t |-> "media_sequence", value |-> <<"7">>],
     [t |-> "media_sequence", value |-> <<"2">>],
     [t |-> "media_sequence", value |-> <<"x">>],
     InfLine(<<"2">>, FALSE), InfLine(<<>>, FALSE),
     KeyLine("AES-128", Ref("k1"), <<>>), KeyLine("AES-128", Ref("k2"), ExplicitIv)}

ScanTexts ==
    UNION {{<<[t |-> "extm3u"]>> \o rest : rest \in [1..n -> ScanLines]} : n \in 1..MaxScanLines}

scan_manifest ==
    /\ applied.fn = NoneVal
    /\ \E text \in ScanTexts :
          LET out == parse_hls_segments(text, RootUrl)
          IN  /\ applied' = [fn |-> "parse_hls_segments", text |-> text, url |-> RootUrl]
              /\ returned' = [raised |-> out.raised, follows |-> out.follows,
                              segments |-> out.segments,
                              locals |-> scan(ScanStart, text, RootUrl)]
    /\ UNCHANGED outside_fn

NextScan == scan_manifest

SpecScan == InitHls /\ [][NextScan]_vars

\* ------------------------------------------------- the chain of manifests
\* parse_hls_segments with its recursion (lines 96-102): the call parses the
\* text it was given, and while that is a master manifest it requests the
\* selected variant and parses the answer in the same way, at the variant's
\* URL. A server answers at most MaxChain requests of one call.
MaxChain == 2
MaxChainLines == 3

ChainLines ==
    {[t |-> "uri", ref |-> Ref("s1")],
     [t |-> "uri", ref |-> [dir |-> <<"hi">>, name |-> "s2"]],
     [t |-> "media_sequence", value |-> <<"7">>],
     InfLine(<<"2">>, FALSE),
     KeyLine("AES-128", Ref("k1"), <<>>)}

ChainTexts ==
    UNION {{<<[t |-> "extm3u"]>> \o rest : rest \in [1..n -> ChainLines]} : n \in 1..MaxChainLines}

in_chain == applied.fn = "parse_hls_segments" /\ "at" \in DOMAIN applied /\ applied.at = "scan"
here == parse_hls_segments(applied.text, applied.url)

\* the outermost call, made with the text of the first manifest
chain_call ==
    /\ applied.fn = NoneVal
    /\ \E text \in ChainTexts :
          applied' = [fn |-> "parse_hls_segments", at |-> "scan", first |-> text,
                      text |-> text, url |-> RootUrl, depth |-> 0, requested |-> <<>>]
    /\ returned' = [raised |-> NoneVal]
    /\ UNCHANGED outside_fn

\* lines 98-102: the selected variant is requested and its text parsed by a
\* call one level deeper
variant_fetched ==
    /\ in_chain
    /\ here.raised = NoneVal
    /\ here.follows # NoRef
    /\ applied.depth < MaxChain
    /\ \E answer \in ChainTexts :
          applied' = [applied EXCEPT !.text = answer, !.url = here.follows,
                                     !.depth = @ + 1,
                                     !.requested = Append(@, here.follows)]
    /\ UNCHANGED returned
    /\ UNCHANGED outside_fn

\* lines 100-101: the request for the variant raises, or raise_for_status does
variant_fetch_fails ==
    /\ in_chain
    /\ here.raised = NoneVal
    /\ here.follows # NoRef
    /\ applied' = [applied EXCEPT !.at = "done", !.requested = Append(@, here.follows)]
    /\ returned' = [raised |-> "RequestException", segments |-> <<>>]
    /\ UNCHANGED outside_fn

\* lines 57, 97, 105 and 107: this level raises or returns its segments, and
\* every level above returns what it got
chain_returns ==
    /\ in_chain
    /\ here.raised # NoneVal \/ here.follows = NoRef
    /\ applied' = [applied EXCEPT !.at = "done"]
    /\ returned' = [raised |-> here.raised, segments |-> here.segments]
    /\ UNCHANGED outside_fn

NextChain == chain_call \/ variant_fetched \/ variant_fetch_fails \/ chain_returns

SpecChain == InitHls /\ [][NextChain]_vars

\* ------------------------------------------------------ initialization vectors
\* the IV part of decrypt_hls_segment (lines 118-124), applied as the loop of
\* download_hls applies it to two segments of one manifest
HexZeros(n) == [j \in 1..n |-> "0"]
IvHexValues ==
    {<<>>,
     ExplicitIv,
     SubSeq(ExplicitIv, 3, Len(ExplicitIv)),
     <<"0", "x">> \o HexZeros(28) \o <<"0", "1", "f", "F">>,
     HexZeros(28) \o <<"0", "1", "F", "f">>,
     HexZeros(31),
     HexZeros(30) \o <<"g", "0">>,
     <<"0", "a">>,
     <<"0", "x">>}
SequenceValues == {0, 1, 255, 256, 65537}
IvSegments == [IV : IvHexValues, sequence : SequenceValues]

\* the IV the cipher is created with, or the ValueError of bytes.fromhex or
\* of AES.new for an IV that is not one block long
cipher_iv(seg) ==
    IF seg.IV # <<>> /\ fromhex_raises(normalized_iv(seg.IV))
    THEN [raised |-> "ValueError", iv |-> <<>>]
    ELSE IF Len(segment_iv(seg.IV, seg.sequence)) # BlockSize
    THEN [raised |-> "ValueError", iv |-> <<>>]
    ELSE [raised |-> NoneVal, iv |-> segment_iv(seg.IV, seg.sequence)]

decrypt_two_segments ==
    /\ applied.fn = NoneVal
    /\ \E first \in IvSegments, second \in IvSegments :
          /\ applied' = [fn |-> "decrypt_hls_segment", segs |-> <<first, second>>]
          /\ returned' = [raised |-> NoneVal, ivs |-> <<cipher_iv(first), cipher_iv(second)>>]
    /\ UNCHANGED outside_fn

NextIv == decrypt_two_segments

SpecIv == InitHls /\ [][NextIv]_vars

\* ------------------------------------------------------------ unpadding alone
\* maybe_unpad_pkcs7 applied to byte strings: a run of up to MaxRun equal
\* bytes followed by up to MaxTail bytes, as they are or PKCS7-padded to
\* whole blocks
MaxTail == 2
MaxRun == 17

RECURSIVE Repeat(_, _)
Repeat(byte, n) == IF n = 0 THEN <<>> ELSE Append(Repeat(byte, n - 1), byte)

TailBytes == {1, 2, 16, 17}
Tails == UNION {[1..n -> TailBytes] : n \in 1..MaxTail} \cup {<<>>}
ByteStrings == {Repeat(byte, n) \o tail : byte \in {2, 16}, n \in 0..MaxRun, tail \in Tails}

\* what the sender's PKCS7 padding appends to p: n bytes n, up to the next
\* whole block
Pkcs7(p) == p \o Repeat(BlockSize - (Len(p) % BlockSize), BlockSize - (Len(p) % BlockSize))

unpad_data ==
    /\ applied.fn = NoneVal
    /\ \E data \in ByteStrings :
          /\ applied' = [fn |-> "maybe_unpad_pkcs7", data |-> data, padded |-> FALSE]
          /\ returned' = [raised |-> NoneVal, data |-> maybe_unpad_pkcs7(data)]
    /\ UNCHANGED outside_fn

unpad_padded ==
    /\ applied.fn = NoneVal
    /\ \E p \in ByteStrings :
          /\ applied' = [fn |-> "maybe_unpad_pkcs7", data |-> Pkcs7(p), padded |-> TRUE]
          /\ returned' = [raised |-> NoneVal, data |-> maybe_unpad_pkcs7(Pkcs7(p))]
    /\ UNCHANGED outside_fn

NextUnpad == unpad_data \/ unpad_padded

SpecUnpad == InitHls /\ [][NextUnpad]_vars

\* ------------------------------------------------------------- batch download
\* download_tracks_with_skip_log over a list of up to MaxTracks tracks; one
\* step is one iteration of its for loop, the download_track call included.
MaxTracks == 2

\* a title longer than the file system allows for one file name;
\* sanitize_filename replaces characters and never shortens
LongTitle == "long"
Titles == {"t", "u", LongTitle}
PlainUrl == "http://h/a.mp3"
HlsUrl == "http://h/a.m3u8"
Urls == {"", PlainUrl, HlsUrl}
Tracks == [title : Titles, url : Urls]
TrackLists == UNION {[1..n -> Tracks] : n \in 0..MaxTracks}

is_hls_url(url) == url = HlsUrl

\* the last component of build_track_output_path, and whether the file
\* system accepts it: exists() and open() raise OSError on a name it does not
build_track_output_path(t) == [name |-> t.title, fits |-> t.title # LongTitle]

\* the exception classes that can leave download_track or enrich_mp3, each
\* with its base class (requests.RequestException derives from IOError)
Bases == [HlsParseError |-> "RuntimeError", MissingDependencyError |-> "RuntimeError",
          RuntimeError |-> "Exception", ValueError |-> "Exception",
          RequestException |-> "OSError", OSError |-> "Exception",
          MutagenError |-> "Exception", VkApiError |-> "RuntimeError",
          Exception |-> "Exception"]

RECURSIVE isinstance(_, _)
isinstance(error, classes) ==
    IF error \in classes THEN TRUE
    ELSE IF error = "Exception" THEN FALSE
    ELSE isinstance(Bases[error], classes)

\* the except clause of the for loop of download_tracks_with_skip_log
BatchCatches == {"RequestException", "MissingDependencyError", "RuntimeError", "ValueError"}

\* what download_hls and convert_to_mp3, or download_file, can raise
DownloadErrors(url) ==
    IF is_hls_url(url)
    THEN {"RequestException", "HlsParseError", "MissingDependencyError", "RuntimeError", "ValueError"}
    ELSE {"RequestException"}

\* how enrich_mp3 can end: not called, returned, or raised from the lookup
\* or from writing the tags
EnrichEnds(enricher) ==
    IF enricher THEN {"returned", "RequestException", "MutagenError", "OSError"} ELSE {"not run"}

enrichment_caught_if_network(error) == isinstance(error, {"RequestException"})

\* the two except clauses around enrich_mp3 in download_track
enrichment_caught(error) ==
    isinstance(error, {"RequestException"}) \/ isinstance(error, {"Exception"})

\* how download_track ends once the file is saved
saved_end(enrich) ==
    IF enrich \in {"not run", "returned"} THEN "path"
    ELSE IF enrichment_caught(enrich) THEN "path"
    ELSE enrich

in_batch == loop.state = "loop" /\ loop.pos <= Len(tracks)
this_track == tracks[loop.pos]

Call(existed, downloaded, enrich, end) ==
    [track |-> loop.pos, existed |-> existed, downloaded |-> downloaded, enrich |-> enrich,
     end |-> end,
     logged |-> IF end = "path" THEN FALSE
                ELSE IF end = "None" THEN TRUE
                ELSE isinstance(end, BatchCatches)]

\* the body of the for loop around a download_track call that ended as
\* call.end: a path, None, or an exception
iteration(call) ==
    /\ calls' = Append(calls, call)
    /\ skipped_file' = IF call.logged
                       THEN Append(skipped_file, build_track_output_path(this_track).name)
                       ELSE skipped_file
    /\ loop' = IF call.end \in {"path", "None"} \/ call.logged
               THEN [loop EXCEPT !.pos = loop.pos + 1]
               ELSE [loop EXCEPT !.state = "raised"]
    /\ UNCHANGED <<tracks, outside_batch>>

download_tracks_begin ==
    /\ loop.state = "idle"
    /\ \E list \in TrackLists, if_exists \in {"skip", "replace"}, enricher \in BOOLEAN :
          /\ tracks' = list
          /\ loop' = [state |-> "loop", pos |-> 1, if_exists |-> if_exists, enricher |-> enricher]
    /\ UNCHANGED <<skipped_file, calls, outside_batch>>

\* download_track: no url
track_without_url ==
    /\ in_batch
    /\ this_track.url = ""
    /\ iteration(Call(FALSE, FALSE, "not run", "None"))

\* download_track: the name is not one the file system accepts
track_path_raises ==
    /\ in_batch
    /\ this_track.url # ""
    /\ ~build_track_output_path(this_track).fits
    /\ iteration(Call(FALSE, FALSE, "not run", "OSError"))

\* download_track: the file exists and if_exists is "skip"
track_exists_skipped ==
    /\ in_batch
    /\ this_track.url # ""
    /\ build_track_output_path(this_track).fits
    /\ loop.if_exists = "skip"
    /\ iteration(Call(TRUE, FALSE, "not run", "path"))

\* a bug: an existing file is downloaded again whatever if_exists says
downloads_always(existed) == TRUE

\* whether download_track goes on to download when the file existed or not
downloads(existed) == ~(existed /\ loop.if_exists = "skip")

\* download_track: the download or the conversion raises
track_download_fails ==
    /\ in_batch
    /\ this_track.url # ""
    /\ build_track_output_path(this_track).fits
    /\ \E existed \in BOOLEAN, error \in DownloadErrors(this_track.url) :
          /\ downloads(existed)
          /\ iteration(Call(existed, FALSE, "not run", error))

\* download_track: the file is saved, then enrich_mp3 if there is an enricher
track_saved ==
    /\ in_batch
    /\ this_track.url # ""
    /\ build_track_output_path(this_track).fits
    /\ \E existed \in BOOLEAN, enrich \in EnrichEnds(loop.enricher) :
          /\ downloads(existed)
          /\ iteration(Call(existed, TRUE, enrich, saved_end(enrich)))

\* the for loop is over
download_tracks_returns ==
    /\ loop.state = "loop"
    /\ loop.pos > Len(tracks)
    /\ loop' = [loop EXCEPT !.state = "returned"]
    /\ UNCHANGED <<tracks, skipped_file, calls, outside_batch>>

NextBatch ==
    \/ download_tracks_begin
    \/ track_without_url
    \/ track_path_raises
    \/ track_exists_skipped
    \/ track_download_fails
    \/ track_saved
    \/ download_tracks_returns

SpecBatch == InitHls /\ [][NextBatch]_vars

\* ------------------------------------------------------ single-track invocation
\* main() with --track: the track is looked up, then download_track is called
\* once, without an enricher; loop.state is "main" between the two and
\* "exit" when the process has ended with loop.code. With --playlist or
\* --user, main runs download_tracks_with_skip_log and exits after it.

\* the except clause of main
MainCatches == {"ValueError", "VkApiError", "RequestException", "MissingDependencyError",
                "RuntimeError"}

\* what parse_track_url, vk_api_call and get_track_info can raise
TrackInfoErrors == {"ValueError", "VkApiError", "RequestException", "RuntimeError"}

\* the process's exit status: main's return value passed to sys.exit, or 1
\* with a traceback for an exception main does not catch
exit_code(end) ==
    IF end \in {"path", "None"} THEN 0
    ELSE IF isinstance(end, MainCatches) THEN 1
    ELSE 1

main_exits(end) ==
    loop' = [state |-> "exit", mode |-> "track", code |-> exit_code(end),
             if_exists |-> loop.if_exists]

\* parse_track_url and get_track_info raise
main_track_info_fails ==
    /\ loop.state = "idle"
    /\ \E error \in TrackInfoErrors, if_exists \in {"skip", "replace"} :
          loop' = [state |-> "exit", mode |-> "track", code |-> exit_code(error),
                   if_exists |-> if_exists]
    /\ UNCHANGED <<tracks, skipped_file, calls, outside_batch>>

\* get_track_info returns the track
main_track_info ==
    /\ loop.state = "idle"
    /\ \E t \in Tracks, if_exists \in {"skip", "replace"} :
          /\ tracks' = <<t>>
          /\ loop' = [state |-> "main", pos |-> 1, if_exists |-> if_exists, enricher |-> FALSE]
    /\ UNCHANGED <<skipped_file, calls, outside_batch>>

\* the ways the download_track call of main can end for the track
TrackCalls ==
    IF this_track.url = "" THEN {Call(FALSE, FALSE, "not run", "None")}
    ELSE IF ~build_track_output_path(this_track).fits
    THEN {Call(FALSE, FALSE, "not run", "OSError")}
    ELSE {Call(TRUE, FALSE, "not run", "path") : x \in {y \in {1} : loop.if_exists = "skip"}}
         \cup {Call(existed, FALSE, "not run", error) :
                   existed \in {e \in BOOLEAN : downloads(e)},
                   error \in DownloadErrors(this_track.url)}
         \cup {Call(existed, TRUE, "not run", "path") : existed \in {e \in BOOLEAN : downloads(e)}}

\* download_track(track, ...) and the rest of main
main_download_track ==
    /\ loop.state = "main"
    /\ \E call \in TrackCalls :
          /\ calls' = <<call>>
          /\ main_exits(call.end)
    /\ UNCHANGED <<tracks, skipped_file, outside_batch>>

\* main after download_tracks_with_skip_log returned, or was left by an
\* exception its loop does not catch (an OSError)
main_batch_ends ==
    /\ loop.state \in {"returned", "raised"}
    /\ loop' = [state |-> "exit", mode |-> "batch",
                code |-> exit_code(IF loop.state = "returned" THEN "None" ELSE "OSError"),
                if_exists |-> loop.if_exists]
    /\ UNCHANGED <<tracks, skipped_file, calls, outside_batch>>

NextMain ==
    \/ main_track_info_fails
    \/ main_track_info
    \/ main_download_track
    \/ NextBatch
    \/ main_batch_ends

SpecMain == InitHls /\ [][NextMain]_vars

\* ------------------------------------------------------- ranking matchers alone
\* the candidate loop of itunes, deezer, discogs and musicbrainz, applied to a
\* response of up to MaxCandidates entries
MaxCandidates == 3

\* common.normalize_for_match: re.sub(r"[^a-z0-9]+", "", value.lower())
Alnum == {"a", "b", "c", "d", "e", "f", "k"} \cup {Digits[d] : d \in 1..Len(Digits)}
RECURSIVE normalize_for_match(_)
normalize_for_match(value) ==
    IF value = <<>> THEN <<>>
    ELSE IF lower(Head(value)) \in Alnum
         THEN <<lower(Head(value))>> \o normalize_for_match(Tail(value))
         ELSE normalize_for_match(Tail(value))

\* a substring test that does not find the empty string
contains_nonempty(hay, needle) ==
    /\ needle # <<>>
    /\ \E i \in 1..Len(hay) :
           i + Len(needle) - 1 <= Len(hay) /\ SubSeq(hay, i, i + Len(needle) - 1) = needle

\* Python's `needle in hay` on strings
contains(hay, needle) ==
    \E i \in 1..(Len(hay) + 1) :
        i + Len(needle) - 1 <= Len(hay) /\ SubSeq(hay, i, i + Len(needle) - 1) = needle

\* the query, and what a response entry can hold: an entry that is no dict,
\* or a dict with a title, an artist and a score (<<>>: key absent or empty)
Query == [artist |-> <<"A", "b">>, title |-> <<"c", Blank>>]
ItemTitles == {<<"C">>, <<"c", "a">>}
ItemArtists == {<<>>, <<"a", "b", "c">>, <<"B">>, <<"c">>}
ItemScores == {0, 90}
Items == [dict : {TRUE}, title : ItemTitles, artist : ItemArtists, score : ItemScores]
         \cup {[dict |-> FALSE, title |-> <<>>, artist |-> <<>>, score |-> 0]}
ItemLists == UNION {[1..n -> Items] : n \in 1..MaxCandidates}
RankingMatchers == {"itunes", "deezer", "discogs", "musicbrainz"}

\* the title and artist a matcher compares: the entry's own; discogs takes
\* the two halves of "artist - track" and the query's values unless both
\* halves are non-blank
compared(matcher, item, artist, title) ==
    IF matcher = "discogs" /\ (stripped(item.artist) = <<>> \/ stripped(item.title) = <<>>)
    THEN [artist |-> artist, title |-> title]
    ELSE [artist |-> item.artist, title |-> item.title]

\* rank = (title_exact, artist_match), with the score appended by musicbrainz
rank(matcher, item, artist, title) ==
    LET c == compared(matcher, item, artist, title)
        item_title == normalize_for_match(c.title)
        item_artist == normalize_for_match(c.artist)
        title_exact == IF item_title = normalize_for_match(title) THEN 1 ELSE 0
        artist_match == IF contains(item_artist, normalize_for_match(artist))
                           \/ contains(normalize_for_match(artist), item_artist)
                        THEN 1 ELSE 0
    IN  IF matcher = "musicbrainz" THEN <<title_exact, artist_match, item.score>>
        ELSE <<title_exact, artist_match>>

\* Python's tuple comparison a > b for tuples of equal length
RECURSIVE tuple_greater(_, _)
tuple_greater(a, b) ==
    IF a = <<>> THEN FALSE
    ELSE IF Head(a) # Head(b) THEN Head(a) > Head(b)
    ELSE tuple_greater(Tail(a), Tail(b))

\* a bug: a later candidate of equal rank replaces the best one
replaces_best_on_tie(candidate_rank, best_rank) == ~tuple_greater(best_rank, candidate_rank)

\* if rank > best_rank
replaces_best(candidate_rank, best_rank) == tuple_greater(candidate_rank, best_rank)

\* the for loop over the first n entries: best_rank and the position of best_item
RECURSIVE best_of(_, _, _, _, _)
best_of(matcher, items, n, artist, title) ==
    IF n = 0
    THEN [best_rank |-> IF matcher = "musicbrainz" THEN <<-1, -1, -1>> ELSE <<-1, -1>>,
          best_item |-> 0]
    ELSE LET before == best_of(matcher, items, n - 1, artist, title)
             r == rank(matcher, items[n], artist, title)
         IN  IF ~items[n].dict THEN before
             ELSE IF replaces_best(r, before.best_rank)
                  THEN [best_rank |-> r, best_item |-> n]
                  ELSE before

select_candidate ==
    /\ applied.fn = NoneVal
    /\ \E matcher \in RankingMatchers, items \in ItemLists :
          /\ applied' = [fn |-> "lookup", matcher |-> matcher, items |-> items]
          /\ returned' = best_of(matcher, items, Len(items), Query.artist, Query.title)
    /\ UNCHANGED outside_fn

NextRanking == select_candidate

SpecRanking == InitHls /\ [][NextRanking]_vars

\* ------------------------------------------------------------ one candidate
\* the rank itunes and deezer give one candidate (itunes.py 33-39, deezer.py
\* 33-41), for queries and candidates with upper case, blanks, punctuation
\* and characters outside ASCII
QueryStrings ==
    {<<"a">>, <<"A", "b">>, <<"k">>, <<KelvinSign>>, <<CyrillicYa>>, <<"-">>,
     <<CyrillicYa, Blank, "b">>}
CandidateStrings ==
    {<<>>, <<Blank>>, <<"a">>, <<"b">>, <<"A", Blank, "B">>, <<"k">>, <<KelvinSign>>,
     <<CyrillicYa>>, <<"-", "7">>}

rank_candidate ==
    /\ applied.fn = NoneVal
    /\ \E matcher \in {"itunes", "deezer"}, artist \in QueryStrings, title \in QueryStrings,
          item_artist \in CandidateStrings, item_title \in CandidateStrings :
          /\ applied' = [fn |-> "rank", matcher |-> matcher, artist |-> artist, title |-> title,
                         item_artist |-> item_artist, item_title |-> item_title]
          /\ returned' = [rank |-> rank(matcher,
                                        [dict |-> TRUE, title |-> item_title,
                                         artist |-> item_artist, score |-> 0],
                                        artist, title),
                          normalized_artist |-> normalize_for_match(artist),
                          normalized_title |-> normalize_for_match(title),
                          item_artist |-> normalize_for_match(item_artist),
                          item_title |-> normalize_for_match(item_title)]
    /\ UNCHANGED outside_fn

NextMatch == rank_candidate

SpecMatch == InitHls /\ [][NextMatch]_vars

\* ------------------------------------------------------ metadata mappings alone
\* what a matcher makes of its best candidate, and what
\* metadata_from_filename makes of a path of up to MaxStem characters
MaxStem == 5

MetadataKeys == {"title", "artist", "album", "date", "genre"}

\* common.build_metadata: a key only for a field that is non-empty after
\* strip(), with the stripped value
build_metadata_unstripped(fields) ==
    [k \in {key \in MetadataKeys : fields[key] # <<>>} |-> fields[k]]

build_metadata(fields) ==
    [k \in {key \in MetadataKeys : stripped(fields[key]) # <<>>} |-> stripped(fields[k])]

\* Python's `value or default` on strings (<<>>: absent, None or "")
or_else(value, default) == IF value = <<>> THEN default ELSE value

\* common.first_year: the first match of \b(19|20)\d{2}\b, or nothing
is_word(c) == lower(c) \in Alnum \cup {"_"}
year_at(v, i) ==
    /\ i + 3 <= Len(v)
    /\ SubSeq(v, i, i + 1) \in {<<"1", "9">>, <<"2", "0">>}
    /\ isdigit(SubSeq(v, i + 2, i + 3))
    /\ IF i = 1 THEN TRUE ELSE ~is_word(v[i - 1])
    /\ IF i + 3 = Len(v) THEN TRUE ELSE ~is_word(v[i + 4])
first_year(v) ==
    IF \E i \in 1..Len(v) : year_at(v, i)
    THEN LET i == CHOOSE j \in 1..Len(v) : year_at(v, j) /\ \A k \in 1..(j - 1) : ~year_at(v, k)
         IN  SubSeq(v, i, i + 3)
    ELSE <<>>

\* what a catalog can hold in a field of a candidate
FieldValues == {<<>>, <<Blank>>, <<"x">>, <<Blank, "x", Blank>>}
DateValues == {<<>>, <<Blank>>, <<"1", "9", "7", "0">>, <<"x", Blank, "2", "0", "0", "1">>}
BestItems == [title : FieldValues, artist : FieldValues, album : FieldValues,
              date : DateValues, genre : FieldValues]
Matchers == RankingMatchers \cup {"lastfm"}

\* the keyword arguments of the matcher's build_metadata call for its best
\* candidate
candidate_fields(matcher, item, artist, title) ==
    CASE matcher = "itunes" ->
           [title |-> or_else(item.title, title), artist |-> or_else(item.artist, artist),
            album |-> item.album, date |-> SubSeq(item.date, 1, Min(10, Len(item.date))),
            genre |-> item.genre]
      [] matcher = "deezer" ->
           [title |-> or_else(item.title, title), artist |-> or_else(item.artist, artist),
            album |-> item.album, date |-> <<>>, genre |-> <<>>]
      [] matcher = "discogs" ->
           [title |-> stripped(compared(matcher, item, artist, title).title),
            artist |-> stripped(compared(matcher, item, artist, title).artist),
            album |-> <<>>,
            date |-> IF isdigit(item.date) THEN (IF int(item.date) > 0 THEN item.date ELSE <<>>)
                     ELSE <<>>,
            genre |-> stripped(item.genre)]
      [] matcher = "musicbrainz" ->
           [title |-> or_else(item.title, title), artist |-> artist,
            album |-> stripped(item.album), date |-> stripped(item.date),
            genre |-> stripped(item.genre)]
      [] matcher = "lastfm" ->
           [title |-> or_else(item.title, title), artist |-> or_else(item.artist, artist),
            album |-> stripped(item.album), date |-> first_year(item.date),
            genre |-> stripped(item.genre)]

\* the matcher's return for a best candidate, called by MetadataEnricher.lookup
map_candidate ==
    /\ applied.fn = NoneVal
    /\ \E matcher \in Matchers, item \in BestItems :
          /\ applied' = [fn |-> "build_metadata", matcher |-> matcher, item |-> item]
          /\ returned' = [raised |-> NoneVal,
                          metadata |-> build_metadata(candidate_fields(
                                           matcher, item, stripped(Query.artist),
                                           stripped(Query.title)))]
    /\ UNCHANGED outside_fn

\* file names: the stem and the name of the parent directory
StemChars == {"a", Blank, "-"}
Stems == UNION {[1..n -> StemChars] : n \in 0..MaxStem}
ParentNames == {<<>>, <<".">>, <<"p">>, <<Blank, "p">>}
Separator == <<Blank, "-", Blank>>

\* str.split(" - ", 1) of a string that contains the separator
split_once(v) ==
    LET i == CHOOSE j \in 1..Len(v) :
                 /\ j + 2 <= Len(v) /\ SubSeq(v, j, j + 2) = Separator
                 /\ \A k \in 1..(j - 1) : SubSeq(v, k, k + 2) # Separator
    IN  <<SubSeq(v, 1, i - 1), SubSeq(v, i + 3, Len(v))>>

NoMapping == [none |-> TRUE]

\* str.strip()
strip(v) == rstrip(lstrip(v))

metadata_from_filename(file_stem, parent_name) ==
    LET stem == strip(file_stem)
        halves == IF contains(stem, Separator) THEN split_once(stem) ELSE <<<<>>, <<>>>>
        parent_artist == strip(parent_name)
    IN  IF stem = <<>> THEN NoMapping
        ELSE IF strip(halves[1]) # <<>> /\ strip(halves[2]) # <<>>
             THEN [k \in {"artist", "title"} |->
                      IF k = "artist" THEN strip(halves[1]) ELSE strip(halves[2])]
        ELSE IF parent_artist # <<>> /\ parent_artist # <<".">>
             THEN [k \in {"artist", "title"} |-> IF k = "artist" THEN parent_artist ELSE stem]
        ELSE [k \in {"title"} |-> stem]

from_filename ==
    /\ applied.fn = NoneVal
    /\ \E file_stem \in Stems, parent_name \in ParentNames :
          /\ applied' = [fn |-> "metadata_from_filename", stem |-> file_stem,
                         parent |-> parent_name]
          /\ returned' = [raised |-> NoneVal,
                          metadata |-> metadata_from_filename(file_stem, parent_name)]
    /\ UNCHANGED outside_fn

NextMapping == map_candidate \/ from_filename

SpecMapping == InitHls /\ [][NextMapping]_vars

\* ------------------------------------------------------------ discogs alone
\* discogs.lookup from the candidate loop on, for a response of one or two
\* entries, each a dict whose "title" is a display string of up to MaxDisplay
\* characters
MaxDisplay == 5

DisplayChars == {"a", "b", Blank, "-"}
Displays == UNION {[1..n -> DisplayChars] : n \in 0..MaxDisplay}
SecondDisplays == {<<"A", Blank, "-", Blank, "b">>, <<"b", Blank, "-", Blank, "b">>, <<"a", "-", "b">>}
DiscogsQuery == [artist |-> <<"A">>, title |-> <<"b">>]

\* a split that is taken as soon as one half is non-blank
discogs_halves_either(display_title, artist, title) ==
    IF ~contains(display_title, Separator) THEN [artist |-> artist, title |-> title]
    ELSE LET halves == split_once(display_title)
         IN  IF strip(halves[1]) # <<>> \/ strip(halves[2]) # <<>>
             THEN [artist |-> strip(halves[1]), title |-> strip(halves[2])]
             ELSE [artist |-> artist, title |-> title]

\* lines 44-51 and 67-74: item_artist and item_track of a display string
discogs_halves(display_title, artist, title) ==
    IF ~contains(display_title, Separator) THEN [artist |-> artist, title |-> title]
    ELSE LET halves == split_once(display_title)
         IN  IF strip(halves[1]) # <<>> /\ strip(halves[2]) # <<>>
             THEN [artist |-> strip(halves[1]), title |-> strip(halves[2])]
             ELSE [artist |-> artist, title |-> title]

\* lines 53-59
discogs_rank(display_title, artist, title) ==
    LET item == discogs_halves(display_title, artist, title)
        matched_title == normalize_for_match(item.title)
        matched_artist == normalize_for_match(item.artist)
    IN  <<IF matched_title = normalize_for_match(title) THEN 1 ELSE 0,
          IF contains(matched_artist, normalize_for_match(artist))
             \/ contains(normalize_for_match(artist), matched_artist) THEN 1 ELSE 0>>

\* lines 37-62: best_rank and the position of best_item after n entries
RECURSIVE discogs_best(_, _, _, _)
discogs_best(results, n, artist, title) ==
    IF n = 0 THEN [best_rank |-> <<-1, -1>>, best_item |-> 0]
    ELSE LET before == discogs_best(results, n - 1, artist, title)
             r == discogs_rank(results[n], artist, title)
         IN  IF replaces_best(r, before.best_rank) THEN [best_rank |-> r, best_item |-> n]
             ELSE before

discogs_lookup ==
    /\ applied.fn = NoneVal
    /\ \E results \in {<<d>> : d \in Displays} \cup (Displays \X SecondDisplays) :
          LET artist == DiscogsQuery.artist
              title == DiscogsQuery.title
              best == discogs_best(results, Len(results), artist, title)
              chosen == discogs_halves(results[best.best_item], artist, title)
          IN  /\ applied' = [fn |-> "discogs.lookup", results |-> results,
                             artist |-> artist, title |-> title]
              /\ returned' = [raised |-> NoneVal,
                              ranks |-> [k \in 1..Len(results) |->
                                            discogs_rank(results[k], artist, title)],
                              best_item |-> best.best_item,
                              metadata |-> build_metadata(
                                  [title |-> chosen.title, artist |-> chosen.artist,
                                   album |-> <<>>, date |-> <<>>, genre |-> <<>>])]
    /\ UNCHANGED outside_fn

NextDiscogs == discogs_lookup

SpecDiscogs == InitHls /\ [][NextDiscogs]_vars

\* ------------------------------------------------- request_json's control flow
\* the for loop of request_json and the code after it (lines 130-185), for
\* every sequence of what session.get does on the attempts: it raises a
\* RequestException, or it gives a response with some status
NoResponse == 0
Raises == [exc |-> TRUE, status |-> NoResponse]
Responds(status) == [exc |-> FALSE, status |-> status]
AttemptOutcomes == {Raises} \cup {Responds(status) : status \in Statuses}
OutcomeLists == [1..max_attempts -> AttemptOutcomes]

\* the loop from one attempt on, with the locals response and last_exc:
\* how it is left, the locals then, and the attempts made
RECURSIVE request_json_loop(_, _, _, _)
request_json_loop(outcomes, k, response, last_exc) ==
    IF k > max_attempts
    THEN [left |-> "exhausted", response |-> response, last_exc |-> last_exc, attempts |-> k - 1]
    ELSE IF outcomes[k].exc
    THEN IF retry_on_exception(k) THEN request_json_loop(outcomes, k + 1, response, TRUE)
         ELSE [left |-> "raise", response |-> response, last_exc |-> TRUE, attempts |-> k]
    ELSE IF retry_on_status(outcomes[k].status, k)
    THEN request_json_loop(outcomes, k + 1, outcomes[k].status, last_exc)
    ELSE IF raises_for_status(outcomes[k].status)
    THEN IF retry_on_exception(k) THEN request_json_loop(outcomes, k + 1, outcomes[k].status, TRUE)
         ELSE [left |-> "raise", response |-> outcomes[k].status, last_exc |-> TRUE, attempts |-> k]
    ELSE [left |-> "break", response |-> outcomes[k].status, last_exc |-> last_exc, attempts |-> k]

\* lines 178-185: the raise of the except branch, or the code after the loop
request_json_ends(outcomes, body) ==
    LET loop_end == request_json_loop(outcomes, 1, NoResponse, FALSE)
        how == IF loop_end.left = "raise" THEN "raised RequestException"
               ELSE IF loop_end.response = NoResponse
               THEN (IF loop_end.last_exc THEN "raised RequestException"
                     ELSE "returned empty mapping")
               ELSE IF body = "badjson" THEN "raised RequestException"
               ELSE "returned json"
    IN  [how |-> how, left |-> loop_end.left, attempts |-> loop_end.attempts,
         response |-> loop_end.response]

request_json_alone ==
    /\ applied.fn = NoneVal
    /\ \E outcomes \in OutcomeLists, body \in Bodies :
          /\ applied' = [fn |-> "request_json", outcomes |-> outcomes, body |-> body]
          /\ returned' = request_json_ends(outcomes, body)
    /\ UNCHANGED outside_fn

NextAttempts == request_json_alone

SpecAttempts == InitHls /\ [][NextAttempts]_vars

\* ------------------------------------------------------ claims, metadata path
IsBlank(s) == \A i \in 1..Len(s) : s[i] = Blank
ClaimedAutoOrder == <<"itunes", "deezer", "musicbrainz", "lastfm", "discogs">>
ClaimedWaits == <<10, 20, 40>>
LookupRequest(h) == h.sent /\ h.by = "lookup"
NetworkError(h) ==
    h.sent /\ h.ends /\ h.outcome \in {"exception", "error status", "badjson"}

\* C3: once 3 consecutive request_json calls to a source have each raised with
\* all attempts used, no lookup sends that source a request any more, and a
\* lookup whose loop stands at that source moves on to the next provider
\* without a request and without ending.
C3_SkipAfterThreeFailures ==
    [][streak >= 3 =>
          /\ ~(LookupRequest(http') /\ http'.source = Watched)
          /\ (pc = "source" /\ idx <= Len(source_order) /\ source_order[idx] = Watched)
                => (pc' = "source" /\ idx' = idx + 1 /\ ~http'.sent /\ result' = NoResult)
      ]_vars

\* a lookup skipped the first provider after its third failed call and sent
\* its first request to the second one
C3_Witness ==
    /\ streak >= 3
    /\ LookupRequest(http)
    /\ http.prev_at = 0
    /\ http.at = 2
    /\ http.source # Watched

\* C4: a source that is in the disabled set stays in it at every step.
C4_DisabledOneWay == [][disabled \subseteq disabled']_vars

\* a lookup has returned another provider's metadata while a source is disabled
C4_Witness ==
    /\ disabled # {}
    /\ result # NoResult
    /\ result.kind = "metadata"
    /\ result.source \notin disabled

\* C5: after a request_json call that returned a response, the source's
\* consecutive-failure counter is zero, whatever the body held (stated for
\* the calls lookup's matchers make, the ones the program makes).
C5_SuccessResetsCounter ==
    (LookupRequest(http) /\ http.ends /\ http.outcome \in {"match", "nomatch", "notdict"})
        => failures[http.source] = 0

\* C6: the requests of one lookup go to the providers in source_order (the
\* claimed auto order, or the one named source), never back to an earlier
\* provider; a provider's non-empty mapping ends the lookup in the same step
\* and is what lookup returns, and it came from the last provider requested.
C6_ProvidersInOrder ==
    /\ LookupRequest(http) =>
          /\ http.prev_at <= http.at
          /\ http.source = (IF source = "auto" THEN ClaimedAutoOrder[http.at] ELSE source)
    /\ (LookupRequest(http) /\ http.outcome = "match") =>
          /\ pc = "idle"
          /\ result.kind = "metadata"
          /\ result.source = http.source
    /\ (result # NoResult /\ result.by = "lookup" /\ result.kind = "metadata") =>
          /\ LookupRequest(http)
          /\ http.outcome = "match"
          /\ result.last_req = result.visited
          /\ result.last_req = http.at

\* the fifth provider of the auto order answered after retries and its
\* mapping was returned
C6_Witness ==
    /\ source = "auto"
    /\ result # NoResult
    /\ result.kind = "metadata"
    /\ result.source = "discogs"
    /\ http.k > 1

\* C7: a network error that ends a provider's call inside lookup leaves the
\* lookup running at the next provider; lookup never ends by raising it, and
\* a lookup of a non-blank track returns none only after the whole order.
C7_NetworkErrorContained ==
    /\ (NetworkError(http) /\ http.by = "lookup") =>
          /\ pc = "source"
          /\ idx = http.at + 1
          /\ result = NoResult
    /\ (result # NoResult /\ result.by = "lookup") =>
          /\ result.kind # "raised RequestException"
          /\ (result.kind = "none" /\ result.visited # 0)
                => result.visited = Len(source_order) + 1

\* the first provider's call raised on its last attempt and the lookup stands
\* at the second provider
C7_Witness ==
    /\ NetworkError(http)
    /\ http.by = "lookup"
    /\ http.outcome = "exception"
    /\ pc = "source"
    /\ idx = 2
    /\ idx <= Len(source_order)

\* C8: a lookup enters its loop only with artist and title non-blank after
\* trimming; otherwise it returns none in the same step, sends no request and
\* leaves timestamps, failure counters and the disabled set as they were.
C8_BlankTrackNoEffect ==
    [][pc = "idle" =>
          /\ pc' = "source" => (~IsBlank(track'.artist) /\ ~IsBlank(track'.title))
          /\ (result' # NoResult /\ result'.by = "lookup") =>
                /\ IsBlank(result'.artist) \/ IsBlank(result'.title)
                /\ result'.kind = "none"
                /\ pc' = "idle"
                /\ ~http'.sent
                /\ UNCHANGED <<elapsed, failures, disabled, since_done>>
      ]_vars

\* a track with an artist and a blank title was turned away by a session
\* that has a disabled source
C8_Witness ==
    /\ result # NoResult
    /\ result.by = "lookup"
    /\ result.visited = 0
    /\ result.artist # <<>>
    /\ result.title = <<>>
    /\ disabled # {}

\* C9: a request_json call makes between 1 and 4 attempts; the waits before
\* attempts 2, 3, 4 are 1, 2, 4 s; the fourth attempt ends the call, and no
\* wait follows the attempt that ends the call.
C9_BoundedAttemptsAndBackoff ==
    /\ pc = "attempt" => attempt \in 1..4
    /\ http.sent =>
          /\ http.k \in 1..4
          /\ http.waited = SubSeq(ClaimedWaits, 1, http.k - 1)
          /\ http.k = 4 => http.ends
          /\ http.ends => since_done[http.source] = 0
          /\ ~http.ends =>
                /\ pc = "attempt"
                /\ waits = SubSeq(ClaimedWaits, 1, http.k)
                /\ since_done[http.source] = Min(min_interval, ClaimedWaits[http.k])

\* a call ended on its fourth attempt with a transport exception
C9_Witness ==
    /\ http.sent
    /\ http.k = 4
    /\ http.ends
    /\ http.outcome = "exception"

\* C10: a request is sent no earlier than 1.1 s after the previous request to
\* the same source completed, in the same call or an earlier one; the throttle
\* sleeps only when that source's own previous request is less than 1.1 s old.
C10_ThrottlePerSource ==
    http.sent =>
        /\ http.gap_at_send >= 11
        /\ http.slept > 0 => http.gap_before < 11

\* the first attempt of a call had to wait for the source's previous call
C10_Witness ==
    /\ http.sent
    /\ http.k = 1
    /\ http.slept > 0
    /\ http.gap_before = 0

\* a request went out undelayed right after a request to another source
C10_WitnessOtherSource ==
    /\ http.sent
    /\ http.slept = 0
    /\ http.others_recent

\* ----------------------------------------------------- claims, transport path
IsSegmentFetch(f) == f.kind = "segment"
IsKeyFetch(f) == f.kind = "key"
SegmentFetches == SelectSeq(fetched, IsSegmentFetch)
KeyFetchesOf(uri) == {i \in 1..Len(fetched) : IsKeyFetch(fetched[i]) /\ fetched[i].url = uri}
FetchedKey(uri) == fetched[CHOOSE i \in KeyFetchesOf(uri) : TRUE].body
UsesAes(seg) == seg.key.METHOD = "AES-128"
UsedKeyUris == {segments[i].key.URI : i \in {j \in 1..Len(segments) : UsesAes(segments[j])}}

\* segment i processed on its own: the bytes fetched for it, decrypted (when
\* the parser attached an AES-128 key descriptor) with the key fetched for its
\* own key URI, its own IV attribute and its own sequence number
Processed(i) ==
    IF UsesAes(segments[i])
    THEN decrypt_hls_segment(SegmentFetches[i].body, FetchedKey(segments[i].key.URI),
                             segments[i].key.IV, segments[i].sequence)
    ELSE SegmentFetches[i].body

\* C1: after a successful download_hls of a manifest with N segments, the
\* output is exactly the concatenation, in manifest order, of the N segments'
\* processed bytes, each segment fetched once from its own URL and processed
\* with the key descriptor and sequence number the parser attached to it.
C1_OutputIsOrderedConcatenation ==
    phase = "done" =>
        /\ Len(SegmentFetches) = Len(segments)
        /\ \A i \in 1..Len(segments) :
              /\ SegmentFetches[i].ok
              /\ SegmentFetches[i].url = segments[i].url
              /\ UsesAes(segments[i]) => KeyFetchesOf(segments[i].key.URI) # {}
        /\ output_file.exists
        /\ output_file.content = Concat([i \in 1..Len(segments) |-> Processed(i)])

\* a finished download of at least two segments that carry different key
\* descriptors, one of them AES-128
C1_Witness ==
    /\ phase = "done"
    /\ Len(segments) >= 2
    /\ \E i, j \in 1..Len(segments) :
          /\ UsesAes(segments[i])
          /\ segments[i].key # segments[j].key
    /\ output_file.content # <<>>

\* a finished download whose encrypted segment has a sequence number that
\* differs from its position in the manifest
C1_WitnessSequence ==
    /\ phase = "done"
    /\ \E i \in 1..Len(segments) :
          /\ UsesAes(segments[i])
          /\ segments[i].key.IV = <<>>
          /\ segments[i].sequence # i - 1

\* C2: a successful download_hls has made exactly one segment request per
\* segment and exactly one key request per distinct key URI of its AES-128
\* segments, and no other key request; the cache holds, under each key URI,
\* the bytes that request returned; and the cache of a call is empty when its
\* loop starts, whatever earlier calls cached.
C2_OneKeyFetchPerUri ==
    /\ phase = "done" =>
          /\ Len(SegmentFetches) = Len(segments)
          /\ \A u \in UsedKeyUris : Cardinality(KeyFetchesOf(u)) = 1
          /\ \A i \in 1..Len(fetched) : IsKeyFetch(fetched[i]) => fetched[i].url \in UsedKeyUris
    /\ phase = "segment" =>
          /\ position = 1 => key_cache = <<>>
          /\ position > Len(segments) => DOMAIN key_cache = UsedKeyUris
          /\ \A u \in DOMAIN key_cache :
                /\ Cardinality(KeyFetchesOf(u)) = 1
                /\ key_cache[u] = FetchedKey(u)

\* one key directive and two segments: two segment requests, one key request
C2_Witness ==
    /\ phase = "done"
    /\ Len(segments) = 2
    /\ UsesAes(segments[1])
    /\ segments[2].key = segments[1].key
    /\ Cardinality({i \in 1..Len(fetched) : IsSegmentFetch(fetched[i])}) = 2
    /\ Cardinality({i \in 1..Len(fetched) : IsKeyFetch(fetched[i])}) = 1

\* a later call starts its loop with an empty cache although an earlier call
\* had cached keys
C2_WitnessFreshCache ==
    /\ phase = "segment"
    /\ position = 1
    /\ earlier_cached
    /\ UsesAes(segments[1])
    /\ key_cache = <<>>

\* ------------------------------------------------ claims, master manifests
ClaimedBandwidth(v) ==
    CASE v = <<>> -> 0
      [] v = <<"3", "0", "0">> -> 300
      [] v = <<"5", "0", "0">> -> 500
      [] v = <<"1", "2", "0", "0">> -> 1200

\* C11: of a master manifest's variants the one followed has the highest
\* BANDWIDTH, a missing BANDWIDTH counting as 0, and is the first in the
\* manifest of those that have it.
C11_HighestBandwidthFirst ==
    (applied.fn = "parse_hls_segments" /\ returned.raised = NoneVal) =>
        \E i \in 1..Len(applied.bandwidths) :
            /\ returned.URI = urljoin(RootUrl, Ref(VariantNames[i]))
            /\ \A j \in 1..Len(applied.bandwidths) :
                  ClaimedBandwidth(applied.bandwidths[j]) <= ClaimedBandwidth(applied.bandwidths[i])
            /\ \A j \in 1..(i - 1) :
                  ClaimedBandwidth(applied.bandwidths[j]) < ClaimedBandwidth(applied.bandwidths[i])

\* bandwidths 500, 1200, 1200, 300: the second variant is followed
C11_Witness ==
    /\ applied.fn = "parse_hls_segments"
    /\ applied.bandwidths = <<<<"5", "0", "0">>, <<"1", "2", "0", "0">>,
                              <<"1", "2", "0", "0">>, <<"3", "0", "0">>>>
    /\ returned.raised = NoneVal
    /\ returned.URI = urljoin(RootUrl, Ref("v2"))

\* every variant without BANDWIDTH but the last, which has the lowest one
C11_WitnessMissing ==
    /\ applied.fn = "parse_hls_segments"
    /\ applied.bandwidths = <<<<>>, <<"3", "0", "0">>>>
    /\ returned.URI = urljoin(RootUrl, Ref("v2"))

\* ----------------------------------------------------- claims, one manifest
HasUriLine(text) == \E i \in 1..Len(text) : text[i].t = "uri"
SignatureFirst(text) == IF text = <<>> THEN FALSE ELSE text[1].t = "extm3u"

C12_WitnessEmpty ==
    /\ applied.fn = "parse_hls_segments"
    /\ applied.text = <<>>
    /\ returned.raised = "HlsParseError"

\* a document without the signature whose lines would give segments
C12_WitnessNoSignature ==
    /\ applied.fn = "parse_hls_segments"
    /\ ~SignatureFirst(applied.text)
    /\ HasUriLine(applied.text)
    /\ returned.raised = "HlsParseError"

\* ------------------------------------------- claims, transport path (errors)
NewFetches == SubSeq(fetched', Len(fetched) + 1, Len(fetched'))

\* C13: the loop iteration of a segment that declares AES-128 without a key
\* URI ends download_hls: with the manifest error once the segment's own
\* bytes have arrived, with no key request, with nothing written; and after
\* download_hls has failed nothing more is requested.
C13_MissingKeyUriFails ==
    [][/\ (phase = "segment" /\ position <= Len(segments)
             /\ segments[position].key.METHOD = "AES-128"
             /\ segments[position].key.URI = NoRef) =>
              /\ phase' = "failed"
              /\ Len(NewFetches) = 1
              /\ NewFetches[1].kind = "segment"
              /\ NewFetches[1].url = segments[position].url
              /\ NewFetches[1].ok => raised' = "HlsParseError"
              /\ output_file' = output_file
       /\ (phase = "failed" /\ phase' = "failed") => fetched' = fetched
      ]_vars

\* the first of two segments under a key directive without URI was fetched
\* and download_hls failed with the manifest error before the second
C13_Witness ==
    /\ phase = "failed"
    /\ raised = "HlsParseError"
    /\ position < Len(segments)
    /\ segments[position].key.METHOD = "AES-128"
    /\ segments[position].key.URI = NoRef
    /\ fetched[Len(fetched)].kind = "segment"
    /\ fetched[Len(fetched)].ok

IsManifestFetch(f) == f.kind = "manifest"
ManifestFetches == SelectSeq(fetched, IsManifestFetch)

\* C14 as stated: no URL is requested twice within one resolution.
C14_EveryUrlOnce ==
    \A i, j \in 1..Len(fetched) : i < j => fetched[i].url # fetched[j].url

\* C14: nothing is requested again: one request per manifest of the chain,
\* one per segment line in manifest order, at most one per key URI; a failed
\* request is the last one, download_hls has raised the network error, and
\* the file, if it was opened, holds exactly the processed bytes of the
\* segments before the one at which the request failed.
C14_NoRetryFailFast ==
    /\ Len(ManifestFetches) <= hops + 1
    /\ Len(SegmentFetches) <= Len(segments)
    /\ \A i \in 1..Len(SegmentFetches) : SegmentFetches[i].url = segments[i].url
    /\ \A i \in 1..Len(fetched) :
          IsKeyFetch(fetched[i]) => Cardinality(KeyFetchesOf(fetched[i].url)) = 1
    /\ \A i \in 1..Len(fetched) :
          ~fetched[i].ok =>
              /\ i = Len(fetched)
              /\ phase = "failed"
              /\ raised = "RequestException"
              /\ IF IsManifestFetch(fetched[i]) THEN output_file = NoFile
                 ELSE /\ output_file.exists
                      /\ output_file.content =
                             Concat([k \in 1..(position - 1) |-> Processed(k)])

\* the key request of the second segment failed after the first segment had
\* been written
C14_Witness ==
    /\ phase = "failed"
    /\ raised = "RequestException"
    /\ position = 2
    /\ fetched[Len(fetched)].kind = "key"
    /\ ~fetched[Len(fetched)].ok
    /\ output_file.content # <<>>

\* a manifest that names the same segment URL on two lines: two requests
C14_WitnessSameUrl ==
    /\ phase = "done"
    /\ Len(segments) = 2
    /\ segments[1].url = segments[2].url
    /\ Len(SegmentFetches) = 2

\* ------------------------------------------- claims, metadata path (credentials)
\* lookup's loop stands at lastfm or discogs, not disabled, and the step
\* enters the matcher, which reads this credential
ReadsCredential(h) == ~h.sent /\ "env" \in DOMAIN h

\* C17: when lastfm or discogs finds its credential absent or blank, the step
\* calls no request_json and sends nothing, leaves the timestamps, the failure
\* counters and the disabled set as they were, and lookup's loop stands at
\* the next provider.
C17_NoCredentialNoRequest ==
    [][(ReadsCredential(http') /\ stripped(http'.env) = <<>>) =>
          /\ pc' = "source"
          /\ idx' = idx + 1
          /\ UNCHANGED <<elapsed, since_done, failures, disabled, req_idx>>
      ]_vars

\* lookup's loop moved past lastfm on a credential of blanks only, after an
\* earlier request of the same lookup, and no source is disabled
C17_Witness ==
    /\ ReadsCredential(http)
    /\ <<Blank, Blank>> = http.env
    /\ pc = "source"
    /\ idx > 1
    /\ source_order[idx - 1] = "lastfm"
    /\ req_idx > 0
    /\ disabled = {}

\* ------------------------------------------------------ claims, ranking matchers
Ranked == applied.fn = "lookup" /\ "matcher" \in DOMAIN applied

\* the claimed rank of response entry i: title exact, artist match, and the
\* catalog score for musicbrainz
ClaimedRank(i) == rank(applied.matcher, applied.items[i], Query.artist, Query.title)

\* lexicographic order on rank tuples, position by position
LexLess(a, b) ==
    \E k \in 1..Len(a) : a[k] < b[k] /\ \A j \in 1..(k - 1) : a[j] = b[j]

Candidates == {i \in 1..Len(applied.items) : applied.items[i].dict}

\* C18: the ranking matchers select the earliest candidate whose rank tuple
\* is lexicographically maximal: no candidate ranks above the selected one,
\* every earlier candidate ranks below it, and nothing is selected only when
\* the response holds no candidate; a candidate with exact title and no
\* artist match is never passed over for one with inexact title.
C18_EarliestMaximalRank ==
    Ranked =>
        IF Candidates = {} THEN returned.best_item = 0
        ELSE /\ returned.best_item \in Candidates
             /\ returned.best_rank = ClaimedRank(returned.best_item)
             /\ \A i \in Candidates :
                   /\ ~LexLess(returned.best_rank, ClaimedRank(i))
                   /\ i < returned.best_item => LexLess(ClaimedRank(i), returned.best_rank)
             /\ (\E i \in Candidates : ClaimedRank(i)[1] = 1) => returned.best_rank[1] = 1

\* itunes: the exact-title candidate without artist overlap is selected
\* although a candidate with inexact title and full artist containment
\* comes first
C18_Witness ==
    /\ Ranked
    /\ applied.matcher = "itunes"
    /\ Len(applied.items) = 2
    /\ returned.best_item = 2
    /\ returned.best_rank = <<1, 0>>
    /\ ClaimedRank(1) = <<0, 1>>
    /\ applied.items[1].artist = <<"a", "b", "c">>

\* musicbrainz: three candidates of equal rank, the first is selected
C18_WitnessTie ==
    /\ Ranked
    /\ applied.matcher = "musicbrainz"
    /\ Candidates = {1, 2, 3}
    /\ returned.best_item = 1
    /\ \A i \in Candidates : ClaimedRank(i) = <<1, 1, 90>>
    /\ applied.items[1] # applied.items[2]

\* ----------------------------------------------------- claims, metadata mappings
Mapped == applied.fn = "build_metadata"
FromFilename == applied.fn = "metadata_from_filename"
IsMapping(m) == m # NoMapping

\* a value without leading or trailing whitespace, and not empty
Trimmed(v) == v # <<>> /\ v[1] # Blank /\ v[Len(v)] # Blank

\* C19: every mapping a matcher returns for a candidate holds the title key
\* and the artist key, each with a non-blank value.
C19_TitleAndArtistAlwaysPresent ==
    Mapped =>
        /\ {"title", "artist"} \subseteq DOMAIN returned.metadata
        /\ \A k \in {"title", "artist"} : stripped(returned.metadata[k]) # <<>>

\* C20: every mapping produced by build_metadata or by the filename fallback
\* has its keys among title, artist, album, date, genre, and every value
\* present is non-empty without leading or trailing whitespace: a field that
\* is empty after trimming has no key.
C20_OnlyTrimmedNonEmptyValues ==
    ((Mapped \/ FromFilename) /\ IsMapping(returned.metadata)) =>
        /\ DOMAIN returned.metadata \subseteq MetadataKeys
        /\ \A k \in DOMAIN returned.metadata : Trimmed(returned.metadata[k])

\* lastfm: a candidate with padded title and artist, a blank album and a
\* year inside its date gives title, artist and date only, all trimmed
C20_Witness ==
    /\ Mapped
    /\ applied.matcher = "lastfm"
    /\ applied.item.title = <<Blank, "x", Blank>>
    /\ applied.item.album = <<Blank>>
    /\ applied.item.date = <<"x", Blank, "2", "0", "0", "1">>
    /\ DOMAIN returned.metadata = {"title", "artist", "date"}
    /\ returned.metadata["date"] = <<"2", "0", "0", "1">>

\* the filename fallback: "a - a" under a directory, and a stem without
\* separator under a blank-padded directory name
C20_WitnessFilename ==
    /\ FromFilename
    /\ applied.stem = <<Blank, "a", "-", "a", Blank>>
    /\ applied.parent = <<Blank, "p">>
    /\ returned.metadata = [k \in {"artist", "title"} |->
                               IF k = "artist" THEN <<"p">> ELSE <<"a", "-", "a">>]

\* -------------------------------------------------------- claims, batch download
\* the tracks download_track was called for, in call order
Attempted == [i \in 1..Len(calls) |-> calls[i].track]

\* the file names of the calls that did not end with a path, in call order
RECURSIVE NamesNotDelivered(_)
NamesNotDelivered(n) ==
    IF n = 0 THEN <<>>
    ELSE IF calls[n].end = "path" THEN NamesNotDelivered(n - 1)
    ELSE Append(NamesNotDelivered(n - 1), build_track_output_path(tracks[calls[n].track]).name)

\* the loop ran to its end: every track attempted once, in order, and the
\* skip log holds the names of the tracks without a delivered file, in order
BatchComplete ==
    /\ Attempted = [i \in 1..Len(tracks) |-> i]
    /\ skipped_file = NamesNotDelivered(Len(calls))

\* C15: a per-track failure never aborts the batch: download_tracks_with_skip_log
\* never ends by an exception, and when it returns every track of the list was
\* attempted exactly once, in list order, and the skip log gained exactly the
\* names of the tracks that failed or had no URL, in track order.
C15_FailuresNeverAbortBatch ==
    /\ loop.state # "raised"
    /\ loop.state = "returned" => BatchComplete

\* C16: a track whose download succeeded ends download_track with the output
\* path and gets no line in the skip log, whatever enrich_mp3 did; the batch
\* goes on.
C16_EnrichmentNeverBlocksDelivery ==
    \A i \in 1..Len(calls) :
        calls[i].downloaded =>
            /\ calls[i].end = "path"
            /\ ~calls[i].logged
            /\ (i = Len(calls) => loop.state # "raised")

\* a batch that returned with a saved track whose tag writing raised
C16_Witness ==
    /\ loop.state = "returned"
    /\ \E i \in 1..Len(calls) : calls[i].downloaded /\ calls[i].enrich = "MutagenError"
    /\ \E i \in 1..Len(calls) : calls[i].downloaded /\ calls[i].enrich = "RequestException"
    /\ skipped_file = <<>>

\* ------------------------------------------------ claims, single-track invocation
Exited == loop.state = "exit" /\ loop.mode = "track"
Produced == calls # <<>> /\ calls[1].end = "path"

\* C21: a single-track invocation exits with a nonzero status whenever the
\* track's file was not produced, in particular for every outcome the batch
\* would record in the skip log, and with zero only when the file was
\* produced or already existed.
C21_NonzeroExitUnlessProduced ==
    Exited =>
        /\ (calls # <<>> /\ calls[1].logged) => loop.code # 0
        /\ loop.code = 0 <=> Produced

\* ------------------------------------------------ claims, initialization vectors
Decrypted == applied.fn = "decrypt_hls_segment"

\* the number a byte string stands for, most significant byte first
RECURSIVE BigEndian(_)
BigEndian(bytes) ==
    IF bytes = <<>> THEN 0
    ELSE 256 * BigEndian(SubSeq(bytes, 1, Len(bytes) - 1)) + bytes[Len(bytes)]

\* the hexadecimal digits of an ivHex, its optional 0x / 0X prefix removed
HexPart(h) ==
    IF Len(h) >= 2 /\ h[1] = "0" /\ h[2] \in {"x", "X"} THEN SubSeq(h, 3, Len(h)) ELSE h

HexDigitValue(c) ==
    CASE c \in {"a", "A"} -> 10 [] c \in {"b", "B"} -> 11 [] c \in {"c", "C"} -> 12
      [] c \in {"d", "D"} -> 13 [] c \in {"e", "E"} -> 14 [] c \in {"f", "F"} -> 15
      [] OTHER -> IndexIn(Digits, c) - 1

\* iv is the 16 bytes the ivHex writes, or the big-endian sequence number
ClaimedIv(seg, iv) ==
    /\ Len(iv) = 16
    /\ IF seg.IV # <<>>
       THEN /\ Len(HexPart(seg.IV)) = 32
            /\ \A j \in 1..16 :
                  iv[j] = 16 * HexDigitValue(HexPart(seg.IV)[2 * j - 1])
                          + HexDigitValue(HexPart(seg.IV)[2 * j])
       ELSE BigEndian(iv) = seg.sequence

WellFormedIv(h) == Len(HexPart(h)) = 32 /\ \A j \in 1..32 : is_hex(HexPart(h)[j])

\* C22: a segment's IV is the 16 bytes its ivHex writes, with or without a
\* 0x / 0X prefix, and otherwise the 16-byte big-endian sequence number; it
\* is a function of the segment alone, and two segments without ivHex and
\* with different sequence numbers get different IVs.
C22_IvFromHexOrSequence ==
    Decrypted =>
        /\ \A i \in 1..2 :
              LET seg == applied.segs[i]
                  got == returned.ivs[i]
              IN  /\ (seg.IV = <<>> \/ WellFormedIv(seg.IV)) => got.raised = NoneVal
                  /\ got.raised = NoneVal => ClaimedIv(seg, got.iv)
        /\ applied.segs[1] = applied.segs[2] => returned.ivs[1] = returned.ivs[2]
        /\ (applied.segs[1].IV = <<>> /\ applied.segs[2].IV = <<>>
            /\ applied.segs[1].sequence # applied.segs[2].sequence)
              => returned.ivs[1].iv # returned.ivs[2].iv

\* a segment with a 0X-prefixed ivHex and one with the same digits without
\* prefix get the same IV, whatever their sequence numbers
C22_Witness ==
    /\ Decrypted
    /\ applied.segs[1].IV = ExplicitIv
    /\ applied.segs[2].IV = SubSeq(ExplicitIv, 3, Len(ExplicitIv))
    /\ applied.segs[1].sequence # applied.segs[2].sequence
    /\ returned.ivs[1].raised = NoneVal
    /\ returned.ivs[1] = returned.ivs[2]
    /\ returned.ivs[1].iv[16] = 10

\* two segments without ivHex, sequences 256 and 65537
C22_WitnessSequence ==
    /\ Decrypted
    /\ applied.segs[1] = [IV |-> <<>>, sequence |-> 256]
    /\ applied.segs[2] = [IV |-> <<>>, sequence |-> 65537]
    /\ returned.ivs[1].iv[15] = 1
    /\ returned.ivs[2].iv[14] = 1
    /\ returned.ivs[2].iv[16] = 1

\* ------------------------------------------------------------ claims, unpadding
Unpadded == applied.fn = "maybe_unpad_pkcs7"

\* the last byte n of data is a padding length and the last n bytes are n
PaddingAtEnd(data) ==
    /\ data # <<>>
    /\ LET n == data[Len(data)]
       IN  /\ n \in 1..16
           /\ n <= Len(data)
           /\ \A j \in 1..Len(data) : j > Len(data) - n => data[j] = n

\* C23: maybe_unpad_pkcs7 removes the last n bytes exactly when the final
\* byte n is in 1..16 and the last n bytes all equal n, and returns its input
\* otherwise; the PKCS7-padded form of any byte string p is given back as p.
C23_UnpadExactlyValidPadding ==
    Unpadded =>
        /\ IF PaddingAtEnd(applied.data)
           THEN /\ Len(returned.data) = Len(applied.data) - applied.data[Len(applied.data)]
                /\ \A j \in 1..Len(returned.data) : returned.data[j] = applied.data[j]
           ELSE returned.data = applied.data
        /\ applied.padded => \A p \in ByteStrings : Pkcs7(p) = applied.data => returned.data = p

\* a whole block of plaintext that itself ends like a padding comes back
\* from its padded form
C23_Witness ==
    /\ Unpadded
    /\ applied.padded
    /\ Len(applied.data) = 32
    /\ returned.data = Repeat(2, 14) \o <<1, 1>>

\* shorter than its last byte says, and a last byte of 17: unchanged
C23_WitnessUnchanged ==
    /\ Unpadded
    /\ ~applied.padded
    /\ applied.data \in {<<16, 16>>, Repeat(16, 16) \o <<17>>}
    /\ returned.data = applied.data

\* ------------------------------------------- claims, metadata path (retry policy)
\* the step is the last attempt of a request_json call all of whose attempts
\* got a response with a retryable status
ExhaustedByStatus(h) == h.sent /\ h.ends /\ h.k = max_attempts /\ h.only_retryable

\* C24: a request_json call whose attempts are used up by responses with a
\* retryable status raises the HTTP error of the last response and leaves
\* the source's failure counter and the disabled set as they were.
C24_ExhaustedStatusNotCounted ==
    [][ExhaustedByStatus(http') =>
          /\ http'.outcome = "error status"
          /\ failures' = failures
          /\ disabled' = disabled
      ]_vars

\* C25: the failure counter of a source grows by exactly one in the step in
\* which a request_json call to it ends with a transport-level exception on
\* its last attempt; an attempt that is followed by a retry changes neither
\* the counters nor the disabled set, and the success that ends the call
\* does not either (inside lookup a match may reset the counter); a source
\* whose counter reaches 3 is in the disabled set in the same step.
C25_CountedOncePerFailedCall ==
    [][/\ (http'.sent /\ http'.ends /\ http'.got = "exception" /\ http' # http) =>
             failures' = [failures EXCEPT ![http'.source] = @ + 1]
       /\ (http'.sent /\ ~http'.ends) => (failures' = failures /\ disabled' = disabled)
       /\ (http'.sent /\ http'.got = "ok") =>
             /\ disabled' = disabled
             /\ \A s \in ALL_SOURCES : failures'[s] = failures[s]
                    \/ (http'.by = "lookup" /\ s = http'.source /\ failures'[s] = 0)
       /\ \A s \in ALL_SOURCES :
             (failures[s] < failure_threshold /\ failures'[s] >= failure_threshold)
                => (s \notin disabled /\ s \in disabled')
      ]_vars

\* a third call in a row ended with an exception on its fourth attempt: the
\* counter is 3 and the source is disabled
C25_Witness ==
    /\ http.sent /\ http.ends /\ http.got = "exception"
    /\ http.k = max_attempts
    /\ failures[http.source] = failure_threshold
    /\ http.source \in disabled

\* a call succeeded on its third attempt after two failed ones, the counter
\* of an earlier failed call still standing
C25_WitnessRetrySucceeds ==
    /\ http.sent /\ http.ends /\ http.got = "ok"
    /\ http.by = "direct"
    /\ http.k = 3
    /\ failures[http.source] = 2

\* C26: an attempt of request_json is followed by a backoff and a retry only
\* if it got a response with a retryable status or a transport-level
\* exception, and only while attempts remain; a response with any other
\* status, success or error, ends the call on that attempt without a wait.
C26_RetryOnlyOnStatusOrException ==
    [][http'.sent =>
          /\ ~http'.ends => (http'.got \in {"retryable", "exception"} /\ http'.k < max_attempts)
          /\ http'.got \in {"ok", "error"} => (http'.ends /\ waits' \in {waits, <<>>})
      ]_vars


\* ---------------------------------------------------------------- C27
\* the lines of a manifest before line p, and the segments the loop has
\* recorded once it has handled them
Before(text, p) == SubSeq(text, 1, p - 1)
RecordedBefore(text, p) == Len(scan(ScanStart, Before(text, p), RootUrl).segments)

\* the media-sequence base a manifest declares: the number of its last
\* media-sequence directive with a numeric value, 0 without one
RECURSIVE DeclaredBase(_)
DeclaredBase(text) ==
    IF text = <<>> THEN 0
    ELSE LET last == text[Len(text)]
         IN  IF last.t = "media_sequence" /\ isdigit(last.value) THEN int(last.value)
             ELSE DeclaredBase(SubSeq(text, 1, Len(text) - 1))

Scanned == applied.fn = "parse_hls_segments" /\ "locals" \in DOMAIN returned

\* C27: within one parsed manifest the segments' sequence numbers are
\* non-negative and strictly increasing in manifest order, each being the
\* media-sequence base plus the count of segments before it, also when the
\* media-sequence directive comes after segment lines or more than once.
C27_SequenceIncreasingFromBase ==
    Scanned =>
        LET segs == returned.locals.segments
        IN  /\ \A i \in 1..Len(segs) :
                  /\ segs[i].sequence >= 0
                  /\ segs[i].sequence = DeclaredBase(applied.text) + (i - 1)
            /\ \A i, j \in 1..Len(segs) : i < j => segs[i].sequence < segs[j].sequence


\* ---------------------------------------------------------------- C28
\* the key state the key directives of these lines leave in force: that of
\* the last of them, the initial no-key state without one
RECURSIVE KeyInForce(_, _)
KeyInForce(text, url) ==
    IF text = <<>> THEN NoKey
    ELSE LET last == text[Len(text)]
         IN  IF last.t = "key"
             THEN [METHOD |-> last.METHOD,
                   URI |-> IF last.URI.name # "" THEN urljoin(url, last.URI) ELSE NoRef,
                   IV |-> last.IV]
             ELSE KeyInForce(SubSeq(text, 1, Len(text) - 1), url)

\* line p of the manifest is recorded as a segment
SegmentLine(text, p) == RecordedBefore(text, p + 1) > RecordedBefore(text, p)

\* C28: each segment carries the key state in force at its own line: that of
\* the most recent key directive before it (the no-key state if none), which
\* stays in force over any number of segments; a key directive after the
\* segment's line never changes that segment's key.
C28_SegmentKeepsKeyInForce ==
    Scanned =>
        \A p \in 1..Len(applied.text) :
            SegmentLine(applied.text, p) =>
                returned.locals.segments[RecordedBefore(applied.text, p + 1)].key
                    = KeyInForce(Before(applied.text, p), applied.url)

\* two segments under one key directive, followed by another key directive
C28_Witness ==
    /\ Scanned
    /\ Len(returned.locals.segments) = 2
    /\ returned.segments = returned.locals.segments
    /\ returned.segments[1].key = returned.segments[2].key
    /\ returned.segments[1].key # NoKey
    /\ returned.locals.current_key # returned.segments[1].key

\* a key directive between two segments
C28_WitnessKeyChange ==
    /\ Scanned
    /\ Len(returned.segments) = 2
    /\ returned.segments[1].key # returned.segments[2].key
    /\ returned.segments[2].key # NoKey


\* ---------------------------------------------------------------- C29
\* the stream-info directives before line p that no non-directive line has
\* followed yet; the last of them is the pending one
Unconsumed(text, p) ==
    {q \in 1..(p - 1) : text[q].t = "stream_inf" /\ \A r \in (q + 1)..(p - 1) : text[r].t # "uri"}
PendingDirective(text, p) == CHOOSE q \in Unconsumed(text, p) : \A r \in Unconsumed(text, p) : r <= q

\* the non-directive line p follows a stream-info directive
VariantUriLine(text, p) == text[p].t = "uri" /\ Unconsumed(text, p) # {}

\* the variants and the segment addresses of the first n lines, when every
\* non-directive line after a stream-info directive is that directive's URI
RECURSIVE ClaimedVariants(_, _, _)
ClaimedVariants(text, url, n) ==
    IF n = 0 THEN <<>>
    ELSE IF VariantUriLine(text, n)
         THEN Append(ClaimedVariants(text, url, n - 1),
                     [attrs |-> text[PendingDirective(text, n)].attrs,
                      URI |-> urljoin(url, text[n].ref)])
         ELSE ClaimedVariants(text, url, n - 1)

RECURSIVE ClaimedSegmentUrls(_, _, _)
ClaimedSegmentUrls(text, url, n) ==
    IF n = 0 THEN <<>>
    ELSE IF text[n].t = "uri" /\ ~VariantUriLine(text, n)
         THEN Append(ClaimedSegmentUrls(text, url, n - 1), urljoin(url, text[n].ref))
         ELSE ClaimedSegmentUrls(text, url, n - 1)

\* C29: the next non-directive line after a stream-info directive is taken as
\* that directive's variant URI, resolved against the manifest URL and with
\* the directive's attributes, and is never recorded as a segment; a directive
\* yields at most one variant, a second directive before any URI line
\* replaces the pending one, and every other non-directive line is a segment.
C29_UriAfterStreamInfIsVariant ==
    Scanned =>
        /\ returned.locals.stream_variants
               = ClaimedVariants(applied.text, applied.url, Len(applied.text))
        /\ [i \in 1..Len(returned.locals.segments) |-> returned.locals.segments[i].url]
               = ClaimedSegmentUrls(applied.text, applied.url, Len(applied.text))


\* ---------------------------------------------------------------- C30
ChainDone == applied.fn = "parse_hls_segments" /\ "at" \in DOMAIN applied /\ applied.at = "done"
ChainReturned == ChainDone /\ returned.raised = NoneVal

\* the lines of a manifest that are not directives and do not follow a
\* stream-info directive
SegmentLinesOf(text) == {p \in 1..Len(text) : text[p].t = "uri" /\ ~VariantUriLine(text, p)}
HasVariant(text) == \E p \in 1..Len(text) : VariantUriLine(text, p)

C30_WitnessDiscarded ==
    /\ ChainReturned
    /\ applied.depth = 1
    /\ KeyInForce(applied.first, RootUrl) # NoKey
    /\ returned.segments[1].key = NoKey
    /\ returned.segments[1].sequence = 0


\* ---------------------------------------------------------------- C31
DiscogsDone == applied.fn = "discogs.lookup"

\* the places of " - " in a display string, and its two sides at the first
SeparatorAt(d) == {i \in 1..(Len(d) - 2) : d[i] = Blank /\ d[i + 1] = "-" /\ d[i + 2] = Blank}
FirstSeparator(d) == CHOOSE i \in SeparatorAt(d) : \A j \in SeparatorAt(d) : i <= j
LeftHalf(d) == SubSeq(d, 1, FirstSeparator(d) - 1)
RightHalf(d) == SubSeq(d, FirstSeparator(d) + 3, Len(d))
ValidSplit(d) == SeparatorAt(d) # {} /\ ~IsBlank(LeftHalf(d)) /\ ~IsBlank(RightHalf(d))

\* trimming: the string between its first and its last non-blank character
TrimmedHalf(d) ==
    LET inked == {i \in 1..Len(d) : d[i] # Blank}
    IN  IF inked = {} THEN <<>>
        ELSE SubSeq(d, CHOOSE i \in inked : \A j \in inked : i <= j,
                       CHOOSE i \in inked : \A j \in inked : i >= j)

ClaimedArtist(d) == IF ValidSplit(d) THEN TrimmedHalf(LeftHalf(d)) ELSE applied.artist
ClaimedTitle(d) == IF ValidSplit(d) THEN TrimmedHalf(RightHalf(d)) ELSE applied.title

\* C31: discogs splits a candidate's display string at its first " - " only
\* when both halves are non-blank after trimming and uses the trimmed halves
\* for ranking and for the returned artist and title; a candidate without a
\* valid split is ranked and returned with the query's artist and title, so
\* its rank is (1, 1).
C31_DiscogsSplitsDisplayTitle ==
    DiscogsDone =>
        /\ \A k \in 1..Len(applied.results) :
              LET d == applied.results[k]
                  a == normalize_for_match(ClaimedArtist(d))
                  q == normalize_for_match(applied.artist)
              IN  /\ returned.ranks[k][1] = 1
                        <=> normalize_for_match(ClaimedTitle(d)) = normalize_for_match(applied.title)
                  /\ returned.ranks[k][2] = 1 <=> (contains(a, q) \/ contains(q, a))
                  /\ ~ValidSplit(d) => returned.ranks[k] = <<1, 1>>
        /\ returned.best_item \in 1..Len(applied.results)
        /\ returned.metadata.artist = ClaimedArtist(applied.results[returned.best_item])
        /\ returned.metadata.title = ClaimedTitle(applied.results[returned.best_item])

\* a display string with one separator and two non-blank halves
C31_Witness ==
    /\ DiscogsDone
    /\ Len(applied.results) = 1
    /\ Cardinality(SeparatorAt(applied.results[1])) = 1
    /\ ValidSplit(applied.results[1])
    /\ returned.metadata.artist = <<"b">>
    /\ returned.ranks[1] = <<0, 0>>

\* a separator with a blank half: the query's values win over a later split
C31_WitnessNoSplit ==
    /\ DiscogsDone
    /\ Len(applied.results) = 2
    /\ SeparatorAt(applied.results[1]) # {}
    /\ ~ValidSplit(applied.results[1])
    /\ ValidSplit(applied.results[2])
    /\ returned.best_item = 1
    /\ returned.metadata = [artist |-> <<"A">>, title |-> <<"b">>]


\* ---------------------------------------------------------------- C32
\* C32: in every state of an enricher each source's consecutive-failure
\* counter is between 0 and 3, a source is in the disabled set exactly when
\* its counter is 3, and no request is sent to a source of the disabled set.
C32_BreakerInvariant ==
    /\ [](\A s \in ALL_SOURCES :
             /\ failures[s] \in 0..3
             /\ s \in disabled <=> failures[s] = 3)
    /\ [][http'.sent => http'.source \notin disabled]_vars

\* a source has been disabled by its third failed call and the lookup has
\* gone on to ask the next one
C32_Witness ==
    /\ disabled # {}
    /\ http.sent
    /\ http.by = "lookup"
    /\ http.source \notin disabled
    /\ \E s \in disabled : failures[s] = 3


\* ---------------------------------------------------------------- C33
AttemptsDone == applied.fn = "request_json"
LastOutcome == applied.outcomes[returned.attempts]
NonErrorStatus(o) == ~o.exc /\ o.status < 400

\* C33: request_json returns a value only when the last attempt it made got
\* a response with a non-error status; in every other case it raises a
\* network error; it never returns the empty mapping of the branch for a
\* call that never obtained a response.
C33_ReturnsOnlyAfterGoodResponse ==
    AttemptsDone =>
        /\ returned.attempts \in 1..max_attempts
        /\ returned.how \in {"returned json", "raised RequestException"}
        /\ returned.how = "returned json" => NonErrorStatus(LastOutcome)
        /\ ~NonErrorStatus(LastOutcome) => returned.how = "raised RequestException"

\* a response with a retryable status, two exceptions, then a good response
C33_Witness ==
    /\ AttemptsDone
    /\ returned.how = "returned json"
    /\ returned.attempts = 4
    /\ applied.outcomes[1] = Responds(503)
    /\ applied.outcomes[2] = Raises

\* four attempts without any response
C33_WitnessNoResponse ==
    /\ AttemptsDone
    /\ \A k \in 1..max_attempts : applied.outcomes[k] = Raises
    /\ returned.how = "raised RequestException"
    /\ returned.response = NoResponse


\* ---------------------------------------------------------------- C34
\* C34: a segment whose key method is not AES-128 (no key directive, NONE or
\* another method) is written exactly as fetched, with no key request and no
\* error of its own, also after AES-128 segments; a key directive with such a
\* method ends decryption for the segments after it.
C34_OtherMethodWrittenAsFetched ==
    [][(phase = "segment" /\ position <= Len(segments)
          /\ segments[position].key.METHOD # "AES-128") =>
           /\ Len(NewFetches) = 1
           /\ NewFetches[1].kind = "segment"
           /\ NewFetches[1].url = segments[position].url
           /\ UNCHANGED key_cache \/ phase' = "failed"
           /\ IF NewFetches[1].ok
              THEN /\ phase' = "segment"
                   /\ position' = position + 1
                   /\ raised' = NoneVal
                   /\ output_file'.content = output_file.content \o NewFetches[1].body
              ELSE /\ raised' = "RequestException"
                   /\ output_file' = output_file
      ]_vars

\* a finished download: an AES-128 segment, then a segment under a directive
\* of another method that names a key, which was never requested
C34_Witness ==
    /\ phase = "done"
    /\ Len(segments) = 2
    /\ UsesAes(segments[1])
    /\ segments[2].key.METHOD = "SAMPLE-AES"
    /\ KeyFetchesOf(segments[2].key.URI) = {}
    /\ Len(fetched) = 4

\* METHOD=NONE after an AES-128 segment
C34_WitnessNone ==
    /\ phase = "done"
    /\ Len(segments) = 2
    /\ UsesAes(segments[1])
    /\ segments[2].key.METHOD = "NONE"
    /\ output_file.content # <<>>


\* ---------------------------------------------------------------- C35
TrackLeft == loop.state = "left"

\* C35: for an HLS track, however download_track is left (saved, manifest,
\* segment or key request failed, decryption failed, converter missing,
\* conversion failed), the temporary .ts.tmp file does not exist afterwards,
\* and the converter is run only after download_hls completed without error.
C35_TempFileRemoved ==
    TrackLeft =>
        /\ ~output_file.exists
        /\ loop.end \in {"path", "RequestException", "HlsParseError", "ValueError",
                         "MissingDependencyError", "RuntimeError"}
        /\ loop.converter # "not called" => (phase = "done" /\ raised = NoneVal)
        /\ phase = "failed" => (loop.converter = "not called" /\ loop.end = raised)

\* decryption of the second segment failed after the first was written to
\* the temporary file
C35_Witness ==
    /\ TrackLeft
    /\ loop.end = "ValueError"
    /\ loop.temp_written
    /\ position = 2
    /\ ~output_file.exists

\* the conversion failed after a complete download
C35_WitnessConversionFailed ==
    /\ TrackLeft
    /\ loop.end = "RuntimeError"
    /\ loop.converter = "run"
    /\ loop.temp_written


\* ---------------------------------------------------------------- C36
LastCall == calls'[Len(calls')]

\* C36: when the output file exists and if_exists is "skip", download_track
\* returns the output path with no download, conversion, write or metadata
\* lookup, and the batch does not put the track in the skip log; with
\* "replace" the download goes on as for a missing file.
C36_ExistingFileSkipped ==
    [][(in_batch /\ Len(calls') = Len(calls) + 1 /\ LastCall.existed) =>
           IF loop.if_exists = "skip"
           THEN /\ LastCall.end = "path"
                /\ ~LastCall.downloaded
                /\ LastCall.enrich = "not run"
                /\ skipped_file' = skipped_file
                /\ loop' = [loop EXCEPT !.pos = loop.pos + 1]
                /\ UNCHANGED <<meta_vars, hls_vars>>
           ELSE \/ LastCall.downloaded
                \/ LastCall.end \in DownloadErrors(this_track.url)
      ]_vars

\* the second track's file existed and was skipped; only the first track,
\* which had no URL, is in the skip log
C36_Witness ==
    /\ Len(calls) = 2
    /\ loop.state = "loop"
    /\ loop.if_exists = "skip"
    /\ calls[2].existed
    /\ calls[2].end = "path"
    /\ ~calls[2].downloaded
    /\ Len(skipped_file) = 1
    /\ calls[1].logged

\* an existing file was downloaded again under "replace"
C36_WitnessReplace ==
    /\ Len(calls) = 1
    /\ loop.state = "loop"
    /\ loop.if_exists = "replace"
    /\ calls[1].existed
    /\ calls[1].downloaded


\* ---------------------------------------------------------------- C37
RankedOne == applied.fn = "rank"
LowercaseOrDigit == {"a", "b", "c", "d", "e", "f", "k", "0", "1", "2", "3", "4", "5", "6", "7",
                     "8", "9"}
AsciiLetterOrDigit == LowercaseOrDigit \cup {"A", "B", "C", "D", "E", "F", "X"}
Chars(v) == {v[i] : i \in 1..Len(v)}

\* C37 as stated: the artist-match element is 1 for a candidate without an
\* artist and for every candidate when the query artist has no ASCII letter
\* or digit.
C37_NoAsciiArtistMatchesAll ==
    (RankedOne /\ (applied.item_artist = <<>> \/ Chars(applied.artist) \cap AsciiLetterOrDigit = {}))
        => returned.rank[2] = 1

\* C37: normalization keeps only lowercase ASCII letters and digits; the
\* artist-match element is 1 whenever either normalized artist is empty, so
\* for a candidate without an artist and for every candidate when the query
\* artist normalizes to nothing; and when the query title normalizes to
\* nothing, a candidate whose title does too has exact title match 1.
C37_EmptyNormalizedMatches ==
    RankedOne =>
        /\ Chars(returned.normalized_artist) \cup Chars(returned.normalized_title)
             \cup Chars(returned.item_artist) \cup Chars(returned.item_title)
               \subseteq LowercaseOrDigit
        /\ (returned.normalized_artist = <<>> \/ returned.item_artist = <<>>)
               => returned.rank[2] = 1
        /\ applied.item_artist = <<>> => returned.rank[2] = 1
        /\ (returned.normalized_title = <<>> /\ returned.item_title = <<>>)
               => returned.rank[1] = 1
        /\ (returned.normalized_title = <<>> /\ returned.item_title # <<>>)
               => returned.rank[1] = 0

\* a Cyrillic query artist against a candidate with an ASCII artist
C37_Witness ==
    /\ RankedOne
    /\ applied.artist = <<CyrillicYa>>
    /\ applied.item_artist = <<"b">>
    /\ returned.normalized_artist = <<>>
    /\ returned.rank[2] = 1

\* query title and candidate title both without letters or digits
C37_WitnessTitle ==
    /\ RankedOne
    /\ applied.title = <<"-">>
    /\ applied.item_title = <<Blank>>
    /\ returned.rank[1] = 1

\* a query artist without ASCII letters that normalizes to a letter
C37_WitnessKelvin ==
    /\ RankedOne
    /\ applied.artist = <<KelvinSign>>
    /\ applied.item_artist = <<"b">>
    /\ returned.normalized_artist = <<"k">>
    /\ returned.rank[2] = 0

====
